---------------------------- MODULE Spec2Model ----------------------------
(***************************************************************************)
(* QuakeWatch operational scripts.                                         *)
(*                                                                         *)
(*   cleanup.py              the teardown workflow (QuakeWatchCleanup)     *)
(*   test_helm_deployment.py the deployment verification workflow          *)
(*                           (HelmDeploymentTest)                          *)
(*                                                                         *)
(* Both scripts drive external command line tools.  The cluster and the    *)
(* local process table are modelled as a "world" value that the commands   *)
(* read and change; any command may also fail (non-zero exit status, no    *)
(* effect), at most MaxFaults times.  A completed real teardown run may be  *)
(* followed by a second run against the cluster the first one left.        *)
(***************************************************************************)
EXTENDS Naturals, Integers, Sequences, FiniteSets, TLC

VARIABLES
    world,              \* the cluster and the local port-forward processes
    world0,             \* the world when the current teardown run started
    args,               \* cleanup.py: parsed flags [all, dry_run, verbose]
    pc,                 \* cleanup.py: position of run()
    resources,          \* cleanup.py: the inventory list_resources_to_delete returned
    deleted_resources,  \* cleanup.py: self.deleted_resources
    log,                \* cleanup.py: every command handed to run_command, in order
    out,                \* cleanup.py: the messages printed in this run
    phases,             \* cleanup.py: the deletion phases entered in this run, in order
    input_line,         \* cleanup.py: the line input() returned to confirm_action
    prompted,           \* cleanup.py: input() was called in this run
    faults,             \* number of commands that failed so far
    exit_status,        \* cleanup.py: the process exit status (-1 while running)
    prev,               \* "none", or how the completed run before this one went
    vpc,                \* test_helm_deployment.py: position of main()/run_all_tests()
    environ,            \* test_helm_deployment.py: os.environ's CLEANUP
    no_cleanup,         \* test_helm_deployment.py: --no-cleanup was given
    attempt,            \* test_pods_running: the loop variable (attempts finished)
    queries,            \* test_pods_running: the pod queries issued
    ready_seen,         \* some pod query returned a non-empty all-Running list
    pods,               \* test_pods_running: the pod list it returned
    endpoint,           \* test_application_health: index of the next route to request
    pf_proc,            \* test_application_health: the port-forward process
    pending,            \* test_application_health: the exception its finally re-raises
    result,             \* run_all_tests: "none", "True" or "False"
    cleanups,           \* how often cleanup() was executed
    steps,              \* the test methods entered, in order
    events,             \* what went wrong in the checks so far
    vexit,              \* test_helm_deployment.py: the exit status (-1 while running)
    helm_missing,       \* test_helm_deployment.py: there is no helm binary to launch
    cleanup_outcome,    \* cleanup(): "none", "ok", "failed" (warning) or "raised"
    call,               \* cleanup.py, one method called on its own: <<name, arguments>>
    ret                 \* cleanup.py, one method called on its own: what it returned

tvars == <<world, world0, args, pc, resources, deleted_resources, log, out,
           phases, input_line, prompted, faults, exit_status, prev>>

vvars == <<vpc, environ, no_cleanup, attempt, queries, ready_seen, pods, endpoint,
           pf_proc, pending, result, cleanups, steps, events, vexit,
           helm_missing, cleanup_outcome>>

uvars == <<call, ret>>

vars == <<tvars, vvars, uvars>>

-----------------------------------------------------------------------------
(* Bounds of the model *)

\* at most this many commands fail
MaxFaults == 1
\* at most this many pods match the selector
MaxPods == 2
\* at most this many replicas in the deployment
MaxReplicas == 2

-----------------------------------------------------------------------------
(* Text.  A text is a sequence of tokens; "\n" and " " are whitespace      *)
(* tokens.  Names that matter for substring search are several tokens.     *)

NL == "\n"

IsWhite(t) == t \in {"\n", " ", "\t"}

RECURSIVE LStrip(_)
LStrip(s) == IF s # <<>> /\ IsWhite(Head(s)) THEN LStrip(Tail(s)) ELSE s

RECURSIVE RStrip(_)
RStrip(s) ==
    IF s # <<>> /\ IsWhite(s[Len(s)]) THEN RStrip(SubSeq(s, 1, Len(s) - 1)) ELSE s

\* str.strip()
Strip(s) == RStrip(LStrip(s))

\* str.split('\n') on a text: the list of lines, each line a text
RECURSIVE SplitLines(_, _)
SplitLines(s, cur) ==
    IF s = <<>> THEN <<cur>>
    ELSE IF Head(s) = NL THEN <<cur>> \o SplitLines(Tail(s), <<>>)
    ELSE SplitLines(Tail(s), Append(cur, Head(s)))

\* `needle in text`
IsSubstring(needle, text) ==
    \E i \in 0..(Len(text) - Len(needle)) :
        SubSeq(text, i + 1, i + Len(needle)) = needle

\* ' '.join(cmd) and ''.join(tokens)
RECURSIVE Join(_, _)
Join(seq, sep) ==
    IF seq = <<>> THEN ""
    ELSE IF Len(seq) = 1 THEN seq[1]
    ELSE seq[1] \o sep \o Join(Tail(seq), sep)

\* the tokens of a release name
Tokens(name) ==
    CASE name = "kube-prometheus-stack" -> <<"kube-prometheus-stack">>
      [] name = "kube-prometheus-stack-crds" -> <<"kube-prometheus-stack", "-crds">>
      [] OTHER -> <<name>>

-----------------------------------------------------------------------------
(* The world: what kubectl, helm, pgrep and pkill act on.                  *)

Namespaces == {"argocd", "monitoring"}

ReleaseNames == {"kube-prometheus-stack", "kube-prometheus-stack-crds"}

\* an object is <<type, name, namespace>>
ArgoApp == <<"application", "earthquake-app", "argocd">>
SMon == <<"servicemonitor", "quakewatch-app", "default">>
PRule == <<"prometheusrule", "quakewatch-alerts", "monitoring">>
Dash == <<"configmap", "quakewatch-dashboard", "monitoring">>
StackPvc == <<"pvc", "prometheus-db", "monitoring">>

\* the objects carrying app.kubernetes.io/instance=earthquake-app
Labelled ==
    {<<"service", "earthquake-app", "default">>,
     <<"deployment.apps", "earthquake-app", "default">>}

AllKinds == "all,configmap,secret,pvc,serviceaccount,cronjob,servicemonitor"
AppSelector == "app.kubernetes.io/instance=earthquake-app"

\* the object each standalone manifest describes
FileObject(path) ==
    CASE path = "monitoring/standalone/servicemonitor.yaml" -> SMon
      [] path = "monitoring/standalone/prometheus-alerts.yaml" -> PRule
      [] path = "monitoring/standalone/grafana-dashboard.yaml" -> Dash

HasArg(cmd, a) == \E i \in DOMAIN cmd : cmd[i] = a

ArgAfter(cmd, flag, dflt) ==
    IF \E i \in 1..(Len(cmd) - 1) : cmd[i] = flag
    THEN cmd[(CHOOSE i \in 1..(Len(cmd) - 1) : cmd[i] = flag) + 1]
    ELSE dflt

SetToSeq(S) ==
    CHOOSE s \in [1..Cardinality(S) -> S] : \A x \in S : \E i \in DOMAIN s : s[i] = x

RECURSIVE NameLines(_)
NameLines(objs) ==
    IF objs = <<>> THEN <<>>
    ELSE <<objs[1][1] \o "/" \o objs[1][2], NL>> \o NameLines(Tail(objs))

RECURSIVE ReleaseLines(_)
ReleaseLines(rels) ==
    IF rels = <<>> THEN <<>>
    ELSE Tokens(rels[1]) \o <<NL>> \o ReleaseLines(Tail(rels))

\* the kubectl port-forward processes the deployment starts
PortForwardPids == {"4101", "4102"}

RECURSIVE PidLines(_)
PidLines(pids) ==
    IF pids = <<>> THEN <<>> ELSE <<Head(pids), NL>> \o PidLines(Tail(pids))

Reply(rc, stdout, w) ==
    [rc |-> rc, stdout |-> stdout,
     stderr |-> IF rc = 0 THEN "" ELSE "Error: not found", w |-> w]

\* kubectl <verb> ... against world w, when the command runs and the cluster answers
Kubectl(w, cmd) ==
    LET ns == ArgAfter(cmd, "-n", "default") IN
    CASE cmd[2] \in {"version", "cluster-info"} -> Reply(0, <<"ok", NL>>, w)
      [] cmd[2] = "get" /\ cmd[3] = "namespace" ->
            IF cmd[4] \in w.ns THEN Reply(0, <<cmd[4], NL>>, w) ELSE Reply(1, <<>>, w)
      [] cmd[2] = "get" /\ HasArg(cmd, "-l") ->
            Reply(0, NameLines(SetToSeq({o \in w.objs \cap Labelled : o[3] = ns})), w)
      [] cmd[2] = "get" /\ cmd[3] # "namespace" /\ ~HasArg(cmd, "-l") ->
            IF <<cmd[3], cmd[4], ns>> \in w.objs
            THEN Reply(0, <<cmd[4], NL>>, w) ELSE Reply(1, <<>>, w)
      [] cmd[2] = "delete" /\ cmd[3] = "namespace" ->
            IF cmd[4] \in w.ns
            THEN Reply(0, <<cmd[4], NL>>,
                       [w EXCEPT !.ns = @ \ {cmd[4]},
                                 !.objs = {o \in @ : o[3] # cmd[4]},
                                 !.rel = IF cmd[4] = "monitoring" THEN {} ELSE @])
            ELSE Reply(1, <<>>, w)
      [] cmd[2] = "delete" /\ cmd[3] = "-f" ->
            IF FileObject(cmd[4]) \in w.objs \/ HasArg(cmd, "--ignore-not-found=true")
            THEN Reply(0, <<>>, [w EXCEPT !.objs = @ \ {FileObject(cmd[4])}])
            ELSE Reply(1, <<>>, w)
      [] cmd[2] = "delete" /\ HasArg(cmd, "--all") ->
            Reply(0, <<>>, [w EXCEPT !.objs = {o \in @ : ~(o[1] = cmd[3] /\ o[3] = ns)}])
      [] cmd[2] = "delete" /\ HasArg(cmd, "-l") ->
            Reply(0, <<>>, [w EXCEPT !.objs = {o \in @ : ~(o \in Labelled /\ o[3] = ns)}])
      [] cmd[2] = "delete" /\ cmd[3] \notin {"namespace", "-f"}
            /\ ~HasArg(cmd, "--all") /\ ~HasArg(cmd, "-l") ->
            IF <<cmd[3], cmd[4], ns>> \in w.objs
               \/ HasArg(cmd, "--ignore-not-found=true")
            THEN Reply(0, <<>>, [w EXCEPT !.objs = @ \ {<<cmd[3], cmd[4], ns>>}])
            ELSE Reply(1, <<>>, w)

\* helm <verb> ... against world w
Helm(w, cmd) ==
    CASE cmd[2] = "version" -> Reply(0, <<"ok", NL>>, w)
      [] cmd[2] = "list" ->
            Reply(0, IF ArgAfter(cmd, "-n", "default") = "monitoring"
                     THEN ReleaseLines(SetToSeq(w.rel)) ELSE <<>>, w)
      [] cmd[2] = "uninstall" ->
            IF ArgAfter(cmd, "-n", "default") = "monitoring" /\ cmd[3] \in w.rel
            THEN Reply(0, <<>>, [w EXCEPT !.rel = @ \ {cmd[3]}])
            ELSE Reply(1, <<>>, w)

\* the external command cmd run against world w
System(w, cmd) ==
    CASE cmd[1] = "kubectl" -> Kubectl(w, cmd)
      [] cmd[1] = "helm" -> Helm(w, cmd)
      [] cmd[1] = "pgrep" ->
            IF w.pf # {} THEN Reply(0, PidLines(SetToSeq(w.pf)), w)
            ELSE Reply(1, <<>>, w)
      [] cmd[1] = "pkill" ->
            IF w.pf # {} THEN Reply(0, <<>>, [w EXCEPT !.pf = {}])
            ELSE Reply(1, <<>>, w)

\* what a deployment leaves: each component is deployed or not
ArgocdParts == {[ns |-> {}, objs |-> {}], [ns |-> {"argocd"}, objs |-> {ArgoApp}]}

AppParts == {{}, Labelled}

StackParts ==
    {[ns |-> {}, objs |-> {}, rel |-> {}]}
    \cup {[ns |-> {"monitoring"}, objs |-> a \cup b.objs, rel |-> b.rel] :
            a \in {{}, {SMon, PRule, Dash}},
            b \in {[objs |-> {}, rel |-> {}],
                   [objs |-> {StackPvc}, rel |-> {"kube-prometheus-stack"}],
                   [objs |-> {}, rel |-> {"kube-prometheus-stack-crds"}]}}

\* the worlds a first teardown run may find
Worlds ==
    {[ns |-> a.ns \cup m.ns, objs |-> a.objs \cup l \cup m.objs, rel |-> m.rel,
      pf |-> p] :
        a \in ArgocdParts, l \in AppParts, m \in StackParts,
        p \in {{}, PortForwardPids}}

-----------------------------------------------------------------------------
(* cleanup.py: helper methods.  A method is an operator on the run's       *)
(* state st = [w, log, deleted, out, faults, k]; orc[k] tells whether the  *)
(* k-th command the method hands to subprocess.run succeeds.               *)

Printed(st, msg) == [st EXCEPT !.out = @ \cup {msg}]

print_header(st, message) == Printed(st, "== " \o message \o " ==")
print_success(st, message) == Printed(st, "OK " \o message)
print_error(st, message) == Printed(st, "ERROR " \o message)
print_warning(st, message) == Printed(st, "WARNING " \o message)
print_info(st, message) == Printed(st, "INFO " \o message)

DryRunLine(cmd) == "[DRY-RUN] Would execute: " \o Join(cmd, " ")

Logged(st, cmd, mode, rc) ==
    [st EXCEPT !.log = Append(@, [cmd |-> cmd, mode |-> mode, rc |-> rc])]

\* the mutant of IsDryRunVerb that forgets helm's verb
IsDryRunVerbDeleteOnly(cmd) ==
    cmd[1] \in {"kubectl", "helm"} /\ HasArg(cmd, "delete")

\* cmd[0] in ['kubectl', 'helm'] and any(x in cmd for x in ['delete', 'uninstall'])
IsDryRunVerb(cmd) ==
    cmd[1] \in {"kubectl", "helm"} /\ \E x \in {"delete", "uninstall"} : HasArg(cmd, x)

\* `value` named `x` in F: a local variable of the method
Bind(value, F(_)) == CHOOSE y \in {F(x) : x \in {value}} : TRUE

\* the mutant of run_command that reports a launch failure as success
run_command_swallows_failure(st, fl, orc, cmd) ==
    Bind(IF fl.verbose THEN Printed(st, "> " \o Join(cmd, " ")) ELSE st, LAMBDA s1 :
    IF fl.dry_run /\ IsDryRunVerb(cmd)
    THEN [st |-> Logged(Printed(s1, DryRunLine(cmd)), cmd, "dry-run", 0),
          rc |-> 0, stdout |-> <<>>, stderr |-> ""]
    ELSE IF orc[s1.k]
    THEN Bind(System(s1.w, cmd), LAMBDA r :
         [st |-> [Logged(s1, cmd, "run", r.rc) EXCEPT !.w = r.w, !.k = @ + 1],
          rc |-> r.rc, stdout |-> r.stdout, stderr |-> r.stderr])
    ELSE [st |-> [Logged(s1, cmd, "run", 0) EXCEPT !.faults = @ + 1, !.k = @ + 1],
          rc |-> 0, stdout |-> <<>>, stderr |-> "command failed"])

run_command(st, fl, orc, cmd) ==
    Bind(IF fl.verbose THEN Printed(st, "> " \o Join(cmd, " ")) ELSE st, LAMBDA s1 :
    IF fl.dry_run /\ IsDryRunVerb(cmd)
    THEN [st |-> Logged(Printed(s1, DryRunLine(cmd)), cmd, "dry-run", 0),
          rc |-> 0, stdout |-> <<>>, stderr |-> ""]
    ELSE IF orc[s1.k]
    THEN Bind(System(s1.w, cmd), LAMBDA r :
         [st |-> [Logged(s1, cmd, "run", r.rc) EXCEPT !.w = r.w, !.k = @ + 1],
          rc |-> r.rc, stdout |-> r.stdout, stderr |-> r.stderr])
    ELSE [st |-> [Logged(s1, cmd, "run", 1) EXCEPT !.faults = @ + 1, !.k = @ + 1],
          rc |-> 1, stdout |-> <<>>, stderr |-> "command failed"])

\* the lower-case of one character
LowerChar(c) ==
    CASE c = "Y" -> "y" [] c = "E" -> "e" [] c = "S" -> "s"
      [] c = "N" -> "n" [] c = "O" -> "o" [] c = "T" -> "t"
      [] c = "R" -> "r" [] c = "U" -> "u" [] c = "F" -> "f"
      [] c = "A" -> "a" [] c = "L" -> "l" [] OTHER -> c

\* str.lower()
Lower(s) == [i \in DOMAIN s |-> LowerChar(s[i])]

\* the lines the operator may type at the prompt, as character sequences
Answers ==
    {<<"y">>, <<" ", "Y", "e", "s">>, <<"n">>, <<>>, <<" ">>,
     <<"y", "e", "s", "!">>, <<"N", "O">>}

\* input() raising EOFError, and no input() call at all
EOF == <<"<EOF>">>
NoInput == <<"<none>">>

\* the mutant of confirm_action whose empty answer means yes
confirm_action_default_yes(line, default) ==
    Lower(Strip(line)) \in {<<>>, <<"y">>, <<"y", "e", "s">>}

\* confirm_action after input() returned `line`
confirm_action(line, default) ==
    LET response == Lower(Strip(line)) IN
    IF response # <<>> THEN response \in {<<"y">>, <<"y", "e", "s">>} ELSE default

\* the mutant of namespace_exists that returns the exit status as the answer
namespace_exists_truthy(st, fl, orc, namespace) ==
    Bind(run_command(st, fl, orc, <<"kubectl", "get", "namespace", namespace>>),
         LAMBDA r : [st |-> r.st, ret |-> r.rc # 0])

namespace_exists(st, fl, orc, namespace) ==
    Bind(run_command(st, fl, orc, <<"kubectl", "get", "namespace", namespace>>),
         LAMBDA r : [st |-> r.st, ret |-> r.rc = 0])

OptNs(namespace) == IF namespace # "" THEN <<"-n", namespace>> ELSE <<>>

\* the mutant of resource_exists that takes a query that could not be
\* launched for an answer "exists"
resource_exists_unless_not_found(st, fl, orc, resource_type, name, namespace) ==
    Bind(run_command(st, fl, orc,
                     <<"kubectl", "get", resource_type, name>> \o OptNs(namespace)),
         LAMBDA r : [st |-> r.st, ret |-> r.rc = 0 \/ r.stderr # "Error: not found"])

resource_exists(st, fl, orc, resource_type, name, namespace) ==
    Bind(run_command(st, fl, orc,
                     <<"kubectl", "get", resource_type, name>> \o OptNs(namespace)),
         LAMBDA r : [st |-> r.st, ret |-> r.rc = 0])

\* the mutant of helm_release_exists that looks for a line of the listing that
\* is the release name
helm_release_exists_whole_line(st, fl, orc, release, namespace) ==
    Bind(run_command(st, fl, orc, <<"helm", "list", "-n", namespace, "-q">>),
         LAMBDA r :
         [st |-> r.st,
          ret |-> r.rc = 0
                  /\ \E i \in DOMAIN SplitLines(Strip(r.stdout), <<>>) :
                         SplitLines(Strip(r.stdout), <<>>)[i] = Tokens(release)])

helm_release_exists(st, fl, orc, release, namespace) ==
    Bind(run_command(st, fl, orc, <<"helm", "list", "-n", namespace, "-q">>),
         LAMBDA r : [st |-> r.st,
                     ret |-> r.rc = 0 /\ IsSubstring(Tokens(release), r.stdout)])

ResourceId(resource_type, name, namespace) ==
    resource_type \o "/" \o name \o (IF namespace # "" THEN " -n " \o namespace ELSE "")

\* the mutant of delete_resource that does not ask to ignore a missing resource
delete_resource_not_found_fails(st, fl, orc, resource_type, name, namespace, wait) ==
    Bind(run_command(st, fl, orc,
             <<"kubectl", "delete", resource_type, name>>
             \o OptNs(namespace) \o (IF wait THEN <<"--wait=true">> ELSE <<>>)),
         LAMBDA r :
    IF r.rc = 0
    THEN [st |-> [r.st EXCEPT !.deleted =
                      Append(@, ResourceId(resource_type, name, namespace))],
          ret |-> TRUE]
    ELSE [st |-> IF r.stderr # "" /\ fl.verbose
                 THEN print_error(r.st, "Failed to delete "
                                        \o resource_type \o "/" \o name)
                 ELSE r.st,
          ret |-> FALSE])

\* the mutant of delete_resource that takes a failed deletion for a failure
\* only when --verbose lets it report the error
delete_resource_fails_when_verbose(st, fl, orc, resource_type, name, namespace, wait) ==
    Bind(run_command(st, fl, orc,
             <<"kubectl", "delete", resource_type, name, "--ignore-not-found=true">>
             \o OptNs(namespace) \o (IF wait THEN <<"--wait=true">> ELSE <<>>)),
         LAMBDA r :
    IF r.rc = 0 \/ ~fl.verbose
    THEN [st |-> [r.st EXCEPT !.deleted =
                      Append(@, ResourceId(resource_type, name, namespace))],
          ret |-> TRUE]
    ELSE [st |-> IF r.stderr # ""
                 THEN print_error(r.st, "Failed to delete "
                                        \o resource_type \o "/" \o name)
                 ELSE r.st,
          ret |-> FALSE])

delete_resource(st, fl, orc, resource_type, name, namespace, wait) ==
    Bind(run_command(st, fl, orc,
             <<"kubectl", "delete", resource_type, name, "--ignore-not-found=true">>
             \o OptNs(namespace) \o (IF wait THEN <<"--wait=true">> ELSE <<>>)),
         LAMBDA r :
    IF r.rc = 0
    THEN [st |-> [r.st EXCEPT !.deleted =
                      Append(@, ResourceId(resource_type, name, namespace))],
          ret |-> TRUE]
    ELSE [st |-> IF r.stderr # "" /\ fl.verbose
                 THEN print_error(r.st, "Failed to delete "
                                        \o resource_type \o "/" \o name)
                 ELSE r.st,
          ret |-> FALSE])

\* the timeout, in seconds, delete_namespaces gives delete_namespace_wait
NamespaceTimeout == 120

delete_namespace_wait(st, fl, orc, namespace, timeout) ==
    Bind(namespace_exists(st, fl, orc, namespace), LAMBDA e :
    IF ~e.ret THEN [st |-> e.st, ret |-> TRUE]
    ELSE Bind(run_command(e.st, fl, orc,
                  <<"kubectl", "delete", "namespace", namespace,
                    "--timeout=" \o ToString(timeout) \o "s">>),
              LAMBDA r :
         IF r.rc = 0
         THEN [st |-> [r.st EXCEPT !.deleted = Append(@, "namespace/" \o namespace)],
               ret |-> TRUE]
         ELSE [st |-> IF fl.verbose
                      THEN print_error(r.st, "Failed to delete namespace " \o namespace)
                      ELSE r.st,
               ret |-> FALSE]))

-----------------------------------------------------------------------------
(* cleanup.py: prerequisite checks and the inventory                       *)

\* one entry of `tools`, or the connectivity check: run it and report
check_tool(st, fl, orc, cmd, found, missing) ==
    Bind(run_command(st, fl, orc, cmd), LAMBDA r :
    [st |-> IF r.rc = 0 THEN print_success(r.st, found)
            ELSE print_error(r.st, missing),
     ret |-> r.rc = 0])

\* the mutant of check_prerequisites whose answer is the last check's alone
check_prerequisites_last_only(st, fl, orc) ==
    Bind(check_tool(print_header(st, "Checking Prerequisites"), fl, orc,
                    <<"kubectl", "version", "--client">>,
                    "kubectl is installed", "kubectl is not installed"),
         LAMBDA k :
    Bind(check_tool(k.st, fl, orc, <<"helm", "version">>,
                    "helm is installed", "helm is not installed"),
         LAMBDA h :
    check_tool(h.st, fl, orc, <<"kubectl", "cluster-info">>,
               "kubectl can connect to cluster",
               "kubectl cannot connect to cluster")))

check_prerequisites(st, fl, orc) ==
    Bind(check_tool(print_header(st, "Checking Prerequisites"), fl, orc,
                    <<"kubectl", "version", "--client">>,
                    "kubectl is installed", "kubectl is not installed"),
         LAMBDA k :
    Bind(check_tool(k.st, fl, orc, <<"helm", "version">>,
                    "helm is installed", "helm is not installed"),
         LAMBDA h :
    Bind(check_tool(h.st, fl, orc, <<"kubectl", "cluster-info">>,
                    "kubectl can connect to cluster",
                    "kubectl cannot connect to cluster"),
         LAMBDA c :
    [st |-> c.st, ret |-> k.ret /\ h.ret /\ c.ret])))

EmptyInventory ==
    [ArgoCD |-> <<>>, Application |-> <<>>, MonitoringStack |-> <<>>,
     MonitoringResources |-> <<>>, Namespaces |-> <<>>]

Categories ==
    {"ArgoCD", "Application", "MonitoringStack", "MonitoringResources", "Namespaces"}

monitoring_resources == <<SMon, PRule, Dash>>

\* for res_type, name, ns in monitoring_resources: if resource_exists(...): append
RECURSIVE list_monitoring(_, _, _, _, _)
list_monitoring(st, fl, orc, todo, items) ==
    IF todo = <<>> THEN [st |-> st, items |-> items]
    ELSE Bind(resource_exists(st, fl, orc, todo[1][1], todo[1][2], todo[1][3]),
              LAMBDA e :
         list_monitoring(e.st, fl, orc, Tail(todo),
                         IF e.ret
                         THEN Append(items,
                                     ResourceId(todo[1][1], todo[1][2], todo[1][3]))
                         ELSE items))

\* for ns in ['argocd', 'monitoring']: if namespace_exists(ns): append
RECURSIVE list_namespaces(_, _, _, _, _)
list_namespaces(st, fl, orc, todo, items) ==
    IF todo = <<>> THEN [st |-> st, items |-> items]
    ELSE Bind(namespace_exists(st, fl, orc, Head(todo)), LAMBDA e :
         list_namespaces(e.st, fl, orc, Tail(todo),
                         IF e.ret THEN Append(items, "namespace/" \o Head(todo))
                         ELSE items))

\* the lines of a text as strings
LineStrings(lines) == [i \in DOMAIN lines |-> Join(lines[i], "")]

Total(res) ==
    Len(res.ArgoCD) + Len(res.Application) + Len(res.MonitoringStack)
    + Len(res.MonitoringResources) + Len(res.Namespaces)

\* the end of list_resources_to_delete: the summary and the return value
list_summary(st, res) ==
    [st |-> IF Total(res) = 0 THEN print_info(st, "No resources found to delete")
            ELSE Printed(st, "Total resources: " \o ToString(Total(res))),
     ret |-> res]

list_resources_to_delete(st, fl, orc) ==
    Bind(resource_exists(print_header(st, "Resources to be Deleted"), fl, orc,
                         "application", "earthquake-app", "argocd"),
         LAMBDA a :
    Bind(run_command(a.st, fl, orc,
                     <<"kubectl", "get", AllKinds, "-l", AppSelector,
                       "-n", "default", "-o", "name">>),
         LAMBDA q :
    Bind(helm_release_exists(q.st, fl, orc, "kube-prometheus-stack", "monitoring"),
         LAMBDA h :
    Bind(list_monitoring(h.st, fl, orc, monitoring_resources, <<>>), LAMBDA m :
    Bind(list_namespaces(m.st, fl, orc, <<"argocd", "monitoring">>, <<>>), LAMBDA n :
    list_summary(n.st,
        [ArgoCD |-> IF a.ret THEN <<"application/earthquake-app -n argocd">>
                    ELSE <<>>,
         Application |-> IF q.rc = 0 /\ Strip(q.stdout) # <<>>
                         THEN LineStrings(SplitLines(Strip(q.stdout), <<>>))
                         ELSE <<>>,
         MonitoringStack |-> IF h.ret THEN <<"Helm release: kube-prometheus-stack">>
                             ELSE <<>>,
         MonitoringResources |-> m.items,
         Namespaces |-> n.items]))))))

-----------------------------------------------------------------------------
(* cleanup.py: the deletion phases                                          *)

\* the mutant of kill_port_forwards without the `if not self.dry_run` guard
kill_port_forwards_unguarded(st, fl, orc) ==
    Bind(run_command(print_header(st, "Stopping Port-Forward Processes"), fl, orc,
                     <<"pgrep", "-f", "kubectl port-forward">>),
         LAMBDA g :
    IF g.rc = 0 /\ Strip(g.stdout) # <<>>
    THEN print_success(
             run_command(g.st, fl, orc, <<"pkill", "-f", "kubectl port-forward">>).st,
             "All port-forwards stopped")
    ELSE print_info(g.st, "No port-forward processes running"))

kill_port_forwards(st, fl, orc) ==
    Bind(run_command(print_header(st, "Stopping Port-Forward Processes"), fl, orc,
                     <<"pgrep", "-f", "kubectl port-forward">>),
         LAMBDA g :
    IF g.rc = 0 /\ Strip(g.stdout) # <<>>
    THEN Bind(print_info(g.st, "Found "
                  \o ToString(Len(SplitLines(Strip(g.stdout), <<>>)))
                  \o " port-forward process(es)"),
              LAMBDA s1 :
         IF ~fl.dry_run
         THEN print_success(
                  run_command(s1, fl, orc, <<"pkill", "-f", "kubectl port-forward">>).st,
                  "All port-forwards stopped")
         ELSE s1)
    ELSE print_info(g.st, "No port-forward processes running"))

\* the mutant of delete_argocd_application that reports the application it
\* found and leaves it in place
delete_argocd_application_report_only(st, fl, orc) ==
    Bind(resource_exists(print_header(st, "Removing ArgoCD Application"), fl, orc,
                         "application", "earthquake-app", "argocd"),
         LAMBDA e :
    IF e.ret
    THEN print_info(e.st, "Deleting ArgoCD application 'earthquake-app'...")
    ELSE print_info(e.st, "ArgoCD application not found"))

delete_argocd_application(st, fl, orc) ==
    Bind(resource_exists(print_header(st, "Removing ArgoCD Application"), fl, orc,
                         "application", "earthquake-app", "argocd"),
         LAMBDA e :
    IF e.ret
    THEN Bind(delete_resource(
                  print_info(e.st, "Deleting ArgoCD application 'earthquake-app'..."),
                  fl, orc, "application", "earthquake-app", "argocd", FALSE),
              LAMBDA d :
         IF d.ret THEN print_success(d.st, "ArgoCD application deleted") ELSE d.st)
    ELSE print_info(e.st, "ArgoCD application not found"))

delete_application_resources(st, fl, orc) ==
    Bind(run_command(print_header(st, "Removing Application Resources"), fl, orc,
                     <<"kubectl", "delete", AllKinds, "-l", AppSelector,
                       "-n", "default", "--ignore-not-found=true">>),
         LAMBDA r :
    delete_resource(
        IF r.rc = 0 THEN print_success(r.st, "Application resources deleted")
        ELSE print_warning(r.st, "Some application resources may not have been deleted"),
        fl, orc, "servicemonitor", "quakewatch-app", "default", FALSE).st)

ManifestFiles ==
    <<"monitoring/standalone/servicemonitor.yaml",
      "monitoring/standalone/prometheus-alerts.yaml",
      "monitoring/standalone/grafana-dashboard.yaml">>

Description(path) ==
    CASE path = ManifestFiles[1] -> "ServiceMonitor"
      [] path = ManifestFiles[2] -> "PrometheusRule"
      [] path = ManifestFiles[3] -> "Grafana Dashboard"

\* the mutant of delete_monitoring_one that never looks for the manifest file
delete_monitoring_one_by_name(st, fl, orc, file_path, present) ==
    delete_resource(st, fl, orc, FileObject(file_path)[1],
                    FileObject(file_path)[2], FileObject(file_path)[3], FALSE).st

\* one iteration of delete_monitoring_resources; present = os.path.exists(file_path)
delete_monitoring_one(st, fl, orc, file_path, present) ==
    IF present
    THEN Bind(run_command(st, fl, orc,
                  <<"kubectl", "delete", "-f", file_path, "--ignore-not-found=true">>),
              LAMBDA r :
         IF r.rc = 0 THEN print_success(r.st, Description(file_path) \o " deleted")
         ELSE r.st)
    ELSE delete_resource(st, fl, orc, FileObject(file_path)[1],
                         FileObject(file_path)[2], FileObject(file_path)[3], FALSE).st

RECURSIVE delete_monitoring_loop(_, _, _, _, _)
delete_monitoring_loop(st, fl, orc, todo, files) ==
    IF todo = <<>> THEN st
    ELSE delete_monitoring_loop(
             delete_monitoring_one(st, fl, orc, Head(todo), Head(todo) \in files),
             fl, orc, Tail(todo), files)

\* the script runs from the repository root, where the manifests are, or elsewhere
WorkingDirectories == {{}, {ManifestFiles[i] : i \in DOMAIN ManifestFiles}}

\* files: the manifest files that exist in the working directory
delete_monitoring_resources(st, fl, orc, files) ==
    delete_monitoring_loop(print_header(st, "Removing Monitoring Resources"),
                           fl, orc, ManifestFiles, files)

\* the mutant of delete_remaining_pvcs that gives up after a failed uninstall
delete_remaining_pvcs_unless_failed(st, fl, orc) ==
    IF "ERROR Failed to uninstall Helm release" \in st.out THEN st
    ELSE Bind(namespace_exists(st, fl, orc, "monitoring"), LAMBDA n :
         IF n.ret
         THEN run_command(print_info(n.st, "Cleaning up PVCs in monitoring namespace..."),
                          fl, orc,
                          <<"kubectl", "delete", "pvc", "--all", "-n", "monitoring",
                            "--ignore-not-found=true">>).st
         ELSE n.st)

\* delete_monitoring_stack: "Delete any remaining PVCs"
delete_remaining_pvcs(st, fl, orc) ==
    Bind(namespace_exists(st, fl, orc, "monitoring"), LAMBDA n :
    IF n.ret
    THEN run_command(print_info(n.st, "Cleaning up PVCs in monitoring namespace..."),
                     fl, orc,
                     <<"kubectl", "delete", "pvc", "--all", "-n", "monitoring",
                       "--ignore-not-found=true">>).st
    ELSE n.st)

delete_monitoring_stack(st, fl, orc) ==
    Bind(helm_release_exists(print_header(st, "Removing Prometheus & Grafana Stack"),
                             fl, orc, "kube-prometheus-stack", "monitoring"),
         LAMBDA e :
    IF e.ret
    THEN Bind(run_command(print_info(e.st,
                              "Uninstalling kube-prometheus-stack Helm release..."),
                          fl, orc,
                          <<"helm", "uninstall", "kube-prometheus-stack",
                            "-n", "monitoring">>),
              LAMBDA u :
         delete_remaining_pvcs(
             IF u.rc = 0
             THEN [print_success(u.st, "Helm release uninstalled")
                      EXCEPT !.deleted = Append(@, "helm-release/kube-prometheus-stack")]
             ELSE print_error(u.st, "Failed to uninstall Helm release"),
             fl, orc))
    ELSE delete_remaining_pvcs(print_info(e.st, "kube-prometheus-stack not installed"),
                               fl, orc))

\* the mutant of delete_namespace_one that tries a failed deletion once more
delete_namespace_one_retry(st, fl, orc, namespace) ==
    Bind(namespace_exists(st, fl, orc, namespace), LAMBDA e :
    IF e.ret
    THEN Bind(delete_namespace_wait(
                  print_info(e.st, "Deleting namespace '" \o namespace \o "'"),
                  fl, orc, namespace, NamespaceTimeout),
              LAMBDA d :
         IF d.ret
         THEN print_success(d.st, "Namespace '" \o namespace \o "' deleted")
         ELSE Bind(delete_namespace_wait(d.st, fl, orc, namespace, NamespaceTimeout),
                   LAMBDA d2 :
              IF d2.ret
              THEN print_success(d2.st, "Namespace '" \o namespace \o "' deleted")
              ELSE print_warning(d2.st,
                                 "Namespace '" \o namespace \o "' deletion timed out")))
    ELSE print_info(e.st, "Namespace '" \o namespace \o "' not found"))

\* one iteration of delete_namespaces
delete_namespace_one(st, fl, orc, namespace) ==
    Bind(namespace_exists(st, fl, orc, namespace), LAMBDA e :
    IF e.ret
    THEN Bind(delete_namespace_wait(
                  print_info(e.st, "Deleting namespace '" \o namespace \o "'"),
                  fl, orc, namespace, NamespaceTimeout),
              LAMBDA d :
         IF d.ret
         THEN print_success(d.st, "Namespace '" \o namespace \o "' deleted")
         ELSE print_warning(d.st, "Namespace '" \o namespace \o "' deletion timed out"))
    ELSE print_info(e.st, "Namespace '" \o namespace \o "' not found"))

RECURSIVE delete_namespaces_loop(_, _, _, _)
delete_namespaces_loop(st, fl, orc, todo) ==
    IF todo = <<>> THEN st
    ELSE delete_namespaces_loop(delete_namespace_one(st, fl, orc, Head(todo)),
                                fl, orc, Tail(todo))

\* the mutant of delete_namespaces that gives up at the first failed deletion
delete_namespaces_stop_on_failure(st, fl, orc) ==
    Bind(delete_namespace_one(print_header(st, "Removing Namespaces"), fl, orc,
                              "argocd"),
         LAMBDA a :
    IF "WARNING Namespace 'argocd' deletion timed out" \in a.out THEN a
    ELSE delete_namespace_one(a, fl, orc, "monitoring"))

\* the mutant of delete_namespaces that forgets the monitoring namespace
delete_namespaces_argocd_only(st, fl, orc) ==
    delete_namespaces_loop(print_header(st, "Removing Namespaces"), fl, orc,
                           <<"argocd">>)

delete_namespaces(st, fl, orc) ==
    delete_namespaces_loop(print_header(st, "Removing Namespaces"), fl, orc,
                           <<"argocd", "monitoring">>)

-----------------------------------------------------------------------------
(* cleanup.py: run(), one action per step                                   *)

St ==
    [w |-> world, log |-> log, deleted |-> deleted_resources, out |-> out,
     faults |-> faults, k |-> 1]

\* the most commands one step hands to run_command: list_resources_to_delete's
MaxCommands == 3 + Len(monitoring_resources) + Cardinality(Namespaces)

\* the outcomes of n commands of which at most b fail
OracleSets ==
    [n \in 1..MaxCommands, b \in 0..MaxFaults |->
        {o \in [1..n -> BOOLEAN] : Cardinality({i \in 1..n : ~o[i]}) <= b}]

\* the outcomes of the next n commands: at most MaxFaults failures in all
Oracles(n) == OracleSets[n, IF faults >= MaxFaults THEN 0 ELSE MaxFaults - faults]

\* the state st a method left becomes the state of the run; the commands the
\* method did not issue have no outcome
Commit(st, orc) ==
    /\ \A i \in DOMAIN orc : i >= st.k => orc[i]
    /\ world' = st.w
    /\ log' = st.log
    /\ deleted_resources' = st.deleted
    /\ out' = st.out
    /\ faults' = st.faults

\* the mutant of PhaseOrder that deletes the namespaces first
PhaseOrderNamespacesFirst ==
    <<"delete_namespaces", "kill_port_forwards", "delete_argocd_application",
      "delete_application_resources", "delete_monitoring_resources",
      "delete_monitoring_stack">>

\* run(): "Execute cleanup in order"
PhaseOrder ==
    <<"kill_port_forwards", "delete_argocd_application",
      "delete_application_resources", "delete_monitoring_resources",
      "delete_monitoring_stack", "delete_namespaces">>

PhaseIndex(p) == CHOOSE i \in DOMAIN PhaseOrder : PhaseOrder[i] = p

\* the step of run() after phase p
After(p) ==
    IF PhaseIndex(p) < Len(PhaseOrder) THEN PhaseOrder[PhaseIndex(p) + 1]
    ELSE "summary"

Flags == [all : BOOLEAN, dry_run : BOOLEAN, verbose : BOOLEAN]

\* what Start and Rerun have in common
Enter(fl) ==
    /\ args' = fl
    /\ pc' = "check_prerequisites"
    /\ world0' = world
    /\ resources' = EmptyInventory
    /\ deleted_resources' = <<>>
    /\ log' = <<>>
    /\ out' = {}
    /\ phases' = <<>>
    /\ input_line' = NoInput
    /\ prompted' = FALSE
    /\ exit_status' = -1
    /\ UNCHANGED <<world, faults>>
    /\ UNCHANGED <<vvars, uvars>>

\* main(): parse the flags, construct QuakeWatchCleanup, enter run()
Start ==
    /\ pc = "idle"
    /\ \E fl \in Flags : Enter(fl)
    /\ UNCHANGED prev

\* main() again, after a real run that reached "Cleanup Complete"
Rerun ==
    /\ pc = "done"
    /\ prev = "none"
    /\ ~args.dry_run
    /\ "== Cleanup Complete ==" \in out
    /\ \E fl \in Flags : Enter(fl)
    /\ prev' = IF faults = 0 THEN "clean" ELSE "faulty"

\* run(): the header and the dry-run notice
run_header(st, fl) ==
    IF fl.dry_run
    THEN print_warning(print_header(st, "QuakeWatch Cleanup Script"),
                       "DRY-RUN MODE: No resources will be deleted")
    ELSE print_header(st, "QuakeWatch Cleanup Script")

\* run(): `if not self.check_prerequisites(): ... sys.exit(1)`
AfterPrerequisites(c, orc) ==
    IF c.ret
    THEN /\ Commit(c.st, orc)
         /\ pc' = "list_resources_to_delete"
         /\ UNCHANGED exit_status
    ELSE /\ Commit(print_error(c.st, "Prerequisites check failed"), orc)
         /\ pc' = "done"
         /\ exit_status' = 1

\* run(): header, dry-run notice, check_prerequisites, sys.exit(1) on failure
CheckPrerequisites ==
    /\ pc = "check_prerequisites"
    /\ \E orc \in [1..3 -> BOOLEAN] :
        \E c \in {check_prerequisites(run_header(St, args), args, orc)} :
            AfterPrerequisites(c, orc)
    /\ UNCHANGED <<world0, args, resources, phases, input_line, prompted, prev>>
    /\ UNCHANGED <<vvars, uvars>>

\* the mutant of AllEmpty that counts running port-forward processes as
\* something to clean up
AllEmptyAndNoPortForwards(res) ==
    (\A c \in Categories : res[c] = <<>>) /\ world.pf = {}

AllEmpty(res) == \A c \in Categories : Len(res[c]) = 0

\* run(): `if all(len(v) == 0 ...): return`, else the warning before the prompt
AfterListing(l, orc) ==
    /\ resources' = l.ret
    /\ IF AllEmpty(l.ret)
       THEN /\ Commit(print_success(l.st, "Nothing to clean up!"), orc)
            /\ pc' = "done"
            /\ exit_status' = 0
       ELSE /\ Commit(IF args.dry_run THEN l.st
                      ELSE Printed(l.st, "This will DELETE all resources listed above"),
                      orc)
            /\ pc' = IF args.dry_run THEN PhaseOrder[1] ELSE "confirm_action"
            /\ UNCHANGED exit_status

\* the cluster is out of reach: every one of n commands fails
Outage(n) == [i \in 1..n |-> FALSE]

\* run(): list_resources_to_delete, return when every category is empty
ListResources ==
    /\ pc = "list_resources_to_delete"
    /\ \E orc \in Oracles(MaxCommands) \cup {Outage(MaxCommands)} :
        \E l \in {list_resources_to_delete(St, args, orc)} : AfterListing(l, orc)
    /\ UNCHANGED <<world0, args, phases, input_line, prompted, prev>>
    /\ UNCHANGED <<vvars, uvars>>

\* run(): confirm_action with --all; no prompt
ConfirmAll ==
    /\ pc = "confirm_action"
    /\ args.all
    /\ pc' = PhaseOrder[1]
    /\ UNCHANGED <<world, world0, args, resources, deleted_resources, log, out,
                   phases, input_line, prompted, faults, exit_status, prev>>
    /\ UNCHANGED <<vvars, uvars>>

\* run(): confirm_action prompts, the operator types a line
ConfirmPrompt ==
    /\ pc = "confirm_action"
    /\ ~args.all
    /\ prompted' = TRUE
    /\ \E line \in Answers :
        /\ input_line' = line
        /\ IF confirm_action(line, FALSE)
           THEN /\ pc' = PhaseOrder[1]
                /\ UNCHANGED <<out, exit_status>>
           ELSE /\ pc' = "done"
                /\ out' = out \cup {"INFO Cleanup cancelled"}
                /\ exit_status' = 0
    /\ UNCHANGED <<world, world0, args, resources, deleted_resources, log,
                   phases, faults, prev>>
    /\ UNCHANGED <<vvars, uvars>>

\* run(): input() raises EOFError, caught by `except Exception`
ConfirmEOF ==
    /\ pc = "confirm_action"
    /\ ~args.all
    /\ prompted' = TRUE
    /\ input_line' = EOF
    /\ pc' = "done"
    /\ out' = out \cup {"ERROR Unexpected error"}
    /\ exit_status' = 1
    /\ UNCHANGED <<world, world0, args, resources, deleted_resources, log,
                   phases, faults, prev>>
    /\ UNCHANGED <<vvars, uvars>>

\* a deletion phase p of run() whose method leaves state st
Phase(p, st, orc) ==
    /\ pc = p
    /\ Commit(st, orc)
    /\ phases' = Append(phases, p)
    /\ pc' = After(p)
    /\ UNCHANGED <<world0, args, resources, input_line, prompted, exit_status, prev>>
    /\ UNCHANGED <<vvars, uvars>>

KillPortForwards ==
    /\ pc = "kill_port_forwards"
    /\ \E orc \in Oracles(2) :
        \E st \in {kill_port_forwards(St, args, orc)} :
            Phase("kill_port_forwards", st, orc)

DeleteArgocdApplication ==
    /\ pc = "delete_argocd_application"
    /\ \E orc \in Oracles(2) :
        \E st \in {delete_argocd_application(St, args, orc)} :
            Phase("delete_argocd_application", st, orc)

DeleteApplicationResources ==
    /\ pc = "delete_application_resources"
    /\ \E orc \in Oracles(2) :
        \E st \in {delete_application_resources(St, args, orc)} :
            Phase("delete_application_resources", st, orc)

DeleteMonitoringResources ==
    /\ pc = "delete_monitoring_resources"
    /\ \E orc \in Oracles(3), files \in WorkingDirectories :
        \E st \in {delete_monitoring_resources(St, args, orc, files)} :
            Phase("delete_monitoring_resources", st, orc)

DeleteMonitoringStack ==
    /\ pc = "delete_monitoring_stack"
    /\ \E orc \in Oracles(4) :
        \E st \in {delete_monitoring_stack(St, args, orc)} :
            Phase("delete_monitoring_stack", st, orc)

DeleteNamespaces ==
    /\ pc = "delete_namespaces"
    /\ \E orc \in Oracles(6) :
        \E st \in {delete_namespaces(St, args, orc)} :
            Phase("delete_namespaces", st, orc)

\* run(): the summary after the last phase
summary(st, fl) ==
    IF fl.dry_run
    THEN print_info(print_header(st, "Cleanup Complete"),
                    "Run without --dry-run to actually delete resources")
    ELSE IF fl.verbose /\ st.deleted # <<>>
    THEN Printed(print_info(print_header(st, "Cleanup Complete"),
                            "Deleted " \o ToString(Len(st.deleted)) \o " resource(s)"),
                 "Deleted resources:")
    ELSE print_info(print_header(st, "Cleanup Complete"),
                    "Deleted " \o ToString(Len(st.deleted)) \o " resource(s)")

Summary ==
    /\ pc = "summary"
    /\ out' = summary(St, args).out
    /\ pc' = "done"
    /\ exit_status' = 0
    /\ UNCHANGED <<world, world0, args, resources, deleted_resources, log,
                   phases, input_line, prompted, faults, prev>>
    /\ UNCHANGED <<vvars, uvars>>

\* the mutant of Interrupt that returns from run() instead of sys.exit(1)
InterruptReturns ==
    /\ pc \notin {"idle", "done"}
    /\ out' = out \cup {"WARNING Cleanup interrupted by user"}
    /\ pc' = "done"
    /\ exit_status' = 0
    /\ UNCHANGED <<world, world0, args, resources, deleted_resources, log,
                   phases, input_line, prompted, faults, prev>>
    /\ UNCHANGED <<vvars, uvars>>

\* run(): KeyboardInterrupt while the run is under way
Interrupt ==
    /\ pc \notin {"idle", "done"}
    /\ out' = out \cup {"WARNING Cleanup interrupted by user"}
    /\ pc' = "done"
    /\ exit_status' = 1
    /\ UNCHANGED <<world, world0, args, resources, deleted_resources, log,
                   phases, input_line, prompted, faults, prev>>
    /\ UNCHANGED <<vvars, uvars>>

TInit ==
    /\ world0 = world
    /\ args = [all |-> FALSE, dry_run |-> FALSE, verbose |-> FALSE]
    /\ pc = "idle"
    /\ resources = EmptyInventory
    /\ deleted_resources = <<>>
    /\ log = <<>>
    /\ out = {}
    /\ phases = <<>>
    /\ input_line = NoInput
    /\ prompted = FALSE
    /\ faults = 0
    /\ exit_status = -1
    /\ prev = "none"

-----------------------------------------------------------------------------
(* test_helm_deployment.py: HelmDeploymentTest.  kubectl, helm and the     *)
(* server under test are a black box: each command or request has one of   *)
(* the outcomes listed with the step that issues it.                       *)

\* max_attempts of test_pods_running
max_attempts == 30

\* health_endpoints, then the main application endpoint
health_endpoints == <<"/ping", "/health", "/status">>
Routes == health_endpoints \o <<"/">>

Unset == <<"<unset>">>

\* the values CLEANUP may have in the environment, as character sequences
EnvValues ==
    {<<"t", "r", "u", "e">>, <<"T", "R", "U", "E">>, <<"T", "r", "u", "e">>,
     <<"f", "a", "l", "s", "e">>, <<"F", "a", "l", "s", "e">>, <<"1">>, <<>>,
     <<" ", "t", "r", "u", "e">>}

\* os.getenv(name, default)
getenv(value, default) == IF value = Unset THEN default ELSE value

\* the mutant of CleanupEnabled that compares without lower()
CleanupEnabledCaseSensitive(value) ==
    getenv(value, <<"t", "r", "u", "e">>) = <<"t", "r", "u", "e">>

\* os.getenv("CLEANUP", "true").lower() == "true"
CleanupEnabled(value) ==
    Lower(getenv(value, <<"t", "r", "u", "e">>)) = <<"t", "r", "u", "e">>

\* the pod lists a query may return: the phase of each pod
RECURSIVE PodListsOfLen(_)
PodListsOfLen(n) ==
    IF n = 0 THEN {<<>>}
    ELSE {Append(l, ph) : l \in PodListsOfLen(n - 1),
                          ph \in {"Running", "Pending", "Failed"}}

PodLists == UNION {PodListsOfLen(n) : n \in 0..MaxPods}

\* the mutant of all_running that lets an empty list pass
all_running_or_empty(items) == \A i \in DOMAIN items : items[i] = "Running"

\* test_pods_running: `if not pods["items"]: continue`, then the scan with break
RECURSIVE scan_running(_)
scan_running(items) ==
    IF items = <<>> THEN TRUE
    ELSE IF Head(items) # "Running" THEN FALSE
    ELSE scan_running(Tail(items))

all_running(items) == items # <<>> /\ scan_running(items)

\* the mutant of Raise that swallows the exception and goes on to the last step
RaiseSwallowed(event) ==
    /\ events' = events \cup {event}
    /\ result' = result
    /\ vpc' = "test_hpa_exists"

\* run_all_tests: `except Exception` after a step raised
Raise(event) ==
    /\ events' = events \cup {event}
    /\ result' = "False"
    /\ vpc' = "finally"

\* the mutant of Warn that raises where the code prints a warning
WarnRaises(event, next) == Raise(event)

\* a check prints a warning and the run goes on at `next`
Warn(event, next) ==
    /\ events' = events \cup {event}
    /\ vpc' = next
    /\ UNCHANGED result

\* a step entered
Enter_step(name) == steps' = Append(steps, name)

\* main(): parse the arguments, set CLEANUP, construct the suite
VStart ==
    /\ vpc = "idle"
    /\ \E e \in EnvValues \cup {Unset}, n \in BOOLEAN :
        /\ no_cleanup' = n
        /\ environ' = IF n THEN <<"f", "a", "l", "s", "e">> ELSE e
    /\ helm_missing' \in BOOLEAN
    /\ vpc' = "test_helm_install"
    /\ UNCHANGED <<attempt, queries, ready_seen, pods, endpoint, pf_proc, pending,
                   result, cleanups, steps, events, vexit, cleanup_outcome>>
    /\ UNCHANGED <<tvars, uvars>>

\* test_helm_install: helm upgrade --install --wait succeeds or raises; with no
\* helm binary subprocess.run raises FileNotFoundError
TestHelmInstall ==
    /\ vpc = "test_helm_install"
    /\ Enter_step("test_helm_install")
    /\ \/ /\ ~helm_missing
          /\ vpc' = "test_deployment_status"
          /\ UNCHANGED <<events, result>>
       \/ Raise("install_failed")
    /\ UNCHANGED <<environ, no_cleanup, attempt, queries, ready_seen, pods, endpoint,
                   pf_proc, pending, cleanups, vexit,
                   helm_missing, cleanup_outcome>>
    /\ UNCHANGED <<tvars, uvars>>

\* test_deployment_status: the query raises, or reports replicas and readyReplicas
TestDeploymentStatus ==
    /\ vpc = "test_deployment_status"
    /\ Enter_step("test_deployment_status")
    /\ \/ Raise("deployment_query_failed")
       \/ \E replicas \in 0..MaxReplicas : \E ready \in 0..replicas :
            IF replicas > 0 /\ ready = replicas
            THEN /\ vpc' = "test_pods_running"
                 /\ UNCHANGED <<events, result>>
            ELSE Raise("deployment_not_ready")
    /\ UNCHANGED <<environ, no_cleanup, attempt, queries, ready_seen, pods, endpoint,
                   pf_proc, pending, cleanups, vexit,
                   helm_missing, cleanup_outcome>>
    /\ UNCHANGED <<tvars, uvars>>

\* test_pods_running: one iteration of `for attempt in range(max_attempts)`
PollPods ==
    /\ vpc = "test_pods_running"
    /\ attempt < max_attempts
    /\ queries' = queries + 1
    /\ steps' = IF attempt = 0 THEN Append(steps, "test_pods_running") ELSE steps
    /\ \/ /\ Raise("pod_query_failed")
          /\ UNCHANGED <<attempt, ready_seen, pods>>
       \/ \E items \in PodLists :
            /\ ready_seen' = (ready_seen \/ (items # <<>> /\ \A i \in DOMAIN items :
                                                              items[i] = "Running"))
            /\ IF all_running(items)
               THEN /\ pods' = items
                    /\ vpc' = "test_service_exists"
                    /\ UNCHANGED attempt
               ELSE /\ attempt' = attempt + 1
                    /\ UNCHANGED <<pods, vpc>>
            /\ UNCHANGED <<events, result>>
    /\ UNCHANGED <<environ, no_cleanup, endpoint, pf_proc, pending, cleanups, vexit,
                   helm_missing, cleanup_outcome>>
    /\ UNCHANGED <<tvars, uvars>>

\* test_pods_running: the loop is exhausted, raise AssertionError
PollTimeout ==
    /\ vpc = "test_pods_running"
    /\ attempt >= max_attempts
    /\ Raise("readiness_timeout")
    /\ UNCHANGED <<environ, no_cleanup, attempt, queries, ready_seen, pods, endpoint,
                   pf_proc, pending, cleanups, steps, vexit,
                   helm_missing, cleanup_outcome>>
    /\ UNCHANGED <<tvars, uvars>>

\* test_service_exists: the query raises, or the service has ports or none
TestServiceExists ==
    /\ vpc = "test_service_exists"
    /\ Enter_step("test_service_exists")
    /\ \/ Raise("service_missing")
       \/ Raise("service_without_ports")
       \/ /\ vpc' = "test_configmap_mount"
          /\ UNCHANGED <<events, result>>
    /\ UNCHANGED <<environ, no_cleanup, attempt, queries, ready_seen, pods, endpoint,
                   pf_proc, pending, cleanups, vexit,
                   helm_missing, cleanup_outcome>>
    /\ UNCHANGED <<tvars, uvars>>

\* test_configmap_mount: pod name query, then ls /data, then cat of the file
TestConfigmapMount ==
    /\ vpc = "test_configmap_mount"
    /\ Enter_step("test_configmap_mount")
    /\ \/ Raise("pod_query_failed")
       \/ Raise("no_pod_found")
       \/ Warn("mount_missing", "test_application_health")
       \/ Warn("config_unreadable", "test_application_health")
       \/ /\ vpc' = "test_application_health"
          /\ UNCHANGED <<events, result>>
    /\ UNCHANGED <<environ, no_cleanup, attempt, queries, ready_seen, pods, endpoint,
                   pf_proc, pending, cleanups, vexit,
                   helm_missing, cleanup_outcome>>
    /\ UNCHANGED <<tvars, uvars>>

\* test_application_health up to `try:`: pod name query, then Popen
HealthStart ==
    /\ vpc = "test_application_health"
    /\ Enter_step("test_application_health")
    /\ \/ /\ Raise("pod_query_failed")
          /\ UNCHANGED <<pf_proc, endpoint>>
       \/ /\ Raise("no_pod_found")
          /\ UNCHANGED <<pf_proc, endpoint>>
       \/ /\ Raise("popen_failed")
          /\ UNCHANGED <<pf_proc, endpoint>>
       \/ /\ pf_proc' = "running"
          /\ endpoint' = 1
          /\ vpc' = "health_try"
          /\ UNCHANGED <<events, result>>
    /\ UNCHANGED <<environ, no_cleanup, attempt, queries, ready_seen, pods,
                   pending, cleanups, vexit,
                   helm_missing, cleanup_outcome>>
    /\ UNCHANGED <<tvars, uvars>>

\* the mutant of OnException without the try/finally
OnExceptionNoFinally == "except"

\* where an exception raised inside `try:` goes: the `finally:` clause
OnException == "health_finally"

\* test_application_health: one request of the try block
HealthRoute ==
    /\ vpc = "health_try"
    /\ endpoint <= Len(Routes)
    /\ \/ /\ \/ Warn("route_non_200", vpc)
                \/ Warn("route_unreachable", vpc)
                \/ UNCHANGED <<events, vpc, result>>
          /\ endpoint' = endpoint + 1
          /\ UNCHANGED pending
       \/ /\ pending' = "interrupted"
          /\ vpc' = OnException
          /\ UNCHANGED <<events, endpoint, result>>
    /\ UNCHANGED <<environ, no_cleanup, attempt, queries, ready_seen, pods,
                   pf_proc, cleanups, steps, vexit,
                   helm_missing, cleanup_outcome>>
    /\ UNCHANGED <<tvars, uvars>>

\* test_application_health: the try block ends normally
HealthTryEnd ==
    /\ vpc = "health_try"
    /\ endpoint > Len(Routes)
    /\ vpc' = "health_finally"
    /\ UNCHANGED <<environ, no_cleanup, attempt, queries, ready_seen, pods, endpoint,
                   pf_proc, pending, result, cleanups, steps, events, vexit,
                   helm_missing, cleanup_outcome>>
    /\ UNCHANGED <<tvars, uvars>>

\* test_application_health: finally: terminate() and wait(), then return or re-raise
HealthFinally ==
    /\ vpc = "health_finally"
    /\ pf_proc' = "reaped"
    /\ IF pending = ""
       THEN /\ vpc' = "test_hpa_exists"
            /\ UNCHANGED <<events, result>>
       ELSE Raise("health_exception")
    /\ UNCHANGED <<environ, no_cleanup, attempt, queries, ready_seen, pods, endpoint,
                   pending, cleanups, steps, vexit,
                   helm_missing, cleanup_outcome>>
    /\ UNCHANGED <<tvars, uvars>>

\* test_hpa_exists, then "All tests completed successfully!" and return True
TestHpaExists ==
    /\ vpc = "test_hpa_exists"
    /\ Enter_step("test_hpa_exists")
    /\ \E warned \in {{}, {"hpa_missing"}} : events' = events \cup warned
    /\ result' = "True"
    /\ vpc' = "finally"
    /\ UNCHANGED <<environ, no_cleanup, attempt, queries, ready_seen, pods, endpoint,
                   pf_proc, pending, cleanups, vexit,
                   helm_missing, cleanup_outcome>>
    /\ UNCHANGED <<tvars, uvars>>

\* cleanup(): helm uninstall with check=False ends with status 0 ("ok") or not
\* ("failed", a warning); with no helm binary subprocess.run raises
CleanupOutcomes(missing) == IF missing THEN {"raised"} ELSE {"ok", "failed"}

\* run_all_tests: finally: cleanup() when CLEANUP says so
Finally ==
    /\ vpc = "finally"
    /\ IF CleanupEnabled(environ)
       THEN /\ cleanups' = cleanups + 1
            /\ cleanup_outcome' \in CleanupOutcomes(helm_missing)
       ELSE UNCHANGED <<cleanups, cleanup_outcome>>
    /\ vpc' = "exit"
    /\ UNCHANGED <<environ, no_cleanup, attempt, queries, ready_seen, pods, endpoint,
                   pf_proc, pending, result, steps, events, vexit, helm_missing>>
    /\ UNCHANGED <<tvars, uvars>>

\* the mutant of ExitStatus that counts a failed cleanup as a failure
ExitStatusCleanupCounts(success, outcome) ==
    IF success = "True" /\ outcome \in {"none", "ok"} THEN 0 ELSE 1

\* main(): sys.exit(0 if success else 1); an exception that left the finally
\* clause of run_all_tests ends the interpreter with status 1
ExitStatus(success, outcome) ==
    IF outcome = "raised" THEN 1 ELSE IF success = "True" THEN 0 ELSE 1

Exit ==
    /\ vpc = "exit"
    /\ vexit' = ExitStatus(result, cleanup_outcome)
    /\ vpc' = "done"
    /\ UNCHANGED <<environ, no_cleanup, attempt, queries, ready_seen, pods, endpoint,
                   pf_proc, pending, result, cleanups, steps, events,
                   helm_missing, cleanup_outcome>>
    /\ UNCHANGED <<tvars, uvars>>

VIdle ==
    /\ environ = Unset
    /\ no_cleanup = FALSE
    /\ attempt = 0
    /\ queries = 0
    /\ ready_seen = FALSE
    /\ pods = <<>>
    /\ endpoint = 0
    /\ pf_proc = "none"
    /\ pending = ""
    /\ result = "none"
    /\ cleanups = 0
    /\ steps = <<>>
    /\ events = {}
    /\ vexit = -1
    /\ helm_missing = FALSE
    /\ cleanup_outcome = "none"

VInit ==
    /\ world = [ns |-> {}, objs |-> {}, rel |-> {}, pf |-> {}]
    /\ TInit
    /\ vpc = "idle"
    /\ VIdle
    /\ call = <<"none">>
    /\ ret = <<>>

VNext ==
    \/ VStart
    \/ TestHelmInstall
    \/ TestDeploymentStatus
    \/ PollPods
    \/ PollTimeout
    \/ TestServiceExists
    \/ TestConfigmapMount
    \/ HealthStart
    \/ HealthRoute
    \/ HealthTryEnd
    \/ HealthFinally
    \/ TestHpaExists
    \/ Finally
    \/ Exit

\* the deployment verification workflow
VSpec == VInit /\ [][VNext]_vars


\* no method is being called on its own
UIdle == call = <<"none">> /\ ret = <<>>

Init == world \in Worlds /\ TInit /\ vpc = "idle" /\ VIdle /\ UIdle

Next ==
    \/ Start
    \/ Rerun
    \/ CheckPrerequisites
    \/ ListResources
    \/ ConfirmAll
    \/ ConfirmPrompt
    \/ ConfirmEOF
    \/ KillPortForwards
    \/ DeleteArgocdApplication
    \/ DeleteApplicationResources
    \/ DeleteMonitoringResources
    \/ DeleteMonitoringStack
    \/ DeleteNamespaces
    \/ Summary
    \/ Interrupt

\* the teardown workflow
Spec == Init /\ [][Next]_vars

\* a step of run(): a command returned, or the operator answered the prompt
RunStep ==
    \/ CheckPrerequisites
    \/ ListResources
    \/ ConfirmAll
    \/ ConfirmPrompt
    \/ ConfirmEOF
    \/ KillPortForwards
    \/ DeleteArgocdApplication
    \/ DeleteApplicationResources
    \/ DeleteMonitoringResources
    \/ DeleteMonitoringStack
    \/ DeleteNamespaces
    \/ Summary

\* the teardown workflow when every external command returns and the operator
\* answers the prompt: a run that has started takes its next step
FairNext == Start \/ RunStep \/ Interrupt

\* the clusters in which ArgoCD, the application and the monitoring stack with
\* its add-ons are each deployed in full or not at all, port-forwards running
FairWorlds ==
    {w \in Worlds :
        /\ w.pf = PortForwardPids
        /\ IF w.rel = {}
           THEN "monitoring" \notin w.ns
           ELSE w.rel = {"kube-prometheus-stack"} /\ {SMon, PRule, Dash} \subseteq w.objs}

FairInit == Init /\ world \in FairWorlds

FairSpec == FairInit /\ [][FairNext]_vars /\ WF_vars(RunStep)

-----------------------------------------------------------------------------
(* cleanup.py: one method of QuakeWatchCleanup called on a fresh object     *)
(* against any cluster, and then called again                               *)

\* the objects cleanup.py names
Objects == {ArgoApp, SMon, PRule, Dash, StackPvc}

\* the commands the call sites of cleanup.py hand to run_command
Commands ==
    {<<"kubectl", "version", "--client">>, <<"helm", "version">>,
     <<"kubectl", "cluster-info">>,
     <<"pgrep", "-f", "kubectl port-forward">>,
     <<"pkill", "-f", "kubectl port-forward">>,
     <<"helm", "list", "-n", "monitoring", "-q">>,
     <<"helm", "uninstall", "kube-prometheus-stack", "-n", "monitoring">>,
     <<"kubectl", "delete", AllKinds, "-l", AppSelector, "-n", "default",
       "--ignore-not-found=true">>,
     <<"kubectl", "delete", "pvc", "--all", "-n", "monitoring",
       "--ignore-not-found=true">>}
    \cup {<<"kubectl", "get", "namespace", n>> : n \in Namespaces}
    \cup {<<"kubectl", "delete", "namespace", n,
             "--timeout=" \o ToString(NamespaceTimeout) \o "s">> : n \in Namespaces}
    \cup {<<"kubectl", "get", o[1], o[2], "-n", o[3]>> : o \in Objects}
    \cup {<<"kubectl", "delete", o[1], o[2], "--ignore-not-found=true", "-n", o[3]>> :
             o \in Objects}
    \cup {<<"kubectl", "delete", "-f", ManifestFiles[i], "--ignore-not-found=true">> :
             i \in DOMAIN ManifestFiles}

\* QuakeWatchCleanup(dry_run, verbose): no command run, nothing deleted yet
Fresh ==
    [w |-> world, log |-> <<>>, deleted |-> <<>>, out |-> {}, faults |-> 0, k |-> 1]

\* a method is called against a cluster as deployed, and then again
MayCall(name, arguments) == call = <<"none">> \/ call = <<name>> \o arguments

\* the most commands phase p hands to run_command
PhaseCommands(p) ==
    CASE p \in {"kill_port_forwards", "delete_argocd_application",
                "delete_application_resources"} -> 2
      [] p = "delete_monitoring_resources" -> 3
      [] p = "delete_monitoring_stack" -> 4
      [] p = "delete_namespaces" -> 6

\* the method `name` was called with `arguments` and left r = [st, ret]
Called(name, arguments, r, orc) ==
    /\ Commit(r.st, orc)
    /\ world0' = world
    /\ call' = <<name>> \o arguments
    /\ ret' = r.ret
    /\ UNCHANGED <<args, pc, resources, phases, input_line, prompted, exit_status, prev>>
    /\ UNCHANGED vvars

\* the deletion phase p of run(), as a method call
phase_method(p, st, fl, orc, files) ==
    CASE p = "kill_port_forwards" -> kill_port_forwards(st, fl, orc)
      [] p = "delete_argocd_application" -> delete_argocd_application(st, fl, orc)
      [] p = "delete_application_resources" ->
            delete_application_resources(st, fl, orc)
      [] p = "delete_monitoring_resources" ->
            delete_monitoring_resources(st, fl, orc, files)
      [] p = "delete_monitoring_stack" -> delete_monitoring_stack(st, fl, orc)
      [] p = "delete_namespaces" -> delete_namespaces(st, fl, orc)

CallRunCommand ==
    \E cmd \in Commands, orc \in OracleSets[1, 1] :
        /\ MayCall("run_command", <<cmd>>)
        /\ \E r \in {run_command(Fresh, args, orc, cmd)} :
            Called("run_command", <<cmd>>,
                   [st |-> r.st,
                    ret |-> [rc |-> r.rc, stdout |-> r.stdout, stderr |-> r.stderr]],
                   orc)

CallNamespaceExists ==
    \E n \in Namespaces, orc \in OracleSets[1, 1] :
        /\ MayCall("namespace_exists", <<n>>)
        /\ \E r \in {namespace_exists(Fresh, args, orc, n)} :
            Called("namespace_exists", <<n>>, r, orc)

CallResourceExists ==
    \E o \in Objects, orc \in OracleSets[1, 1] :
        /\ MayCall("resource_exists", o)
        /\ \E r \in {resource_exists(Fresh, args, orc, o[1], o[2], o[3])} :
            Called("resource_exists", o, r, orc)

CallHelmReleaseExists ==
    \E release \in ReleaseNames, orc \in OracleSets[1, 1] :
        /\ MayCall("helm_release_exists", <<release, "monitoring">>)
        /\ \E r \in {helm_release_exists(Fresh, args, orc, release, "monitoring")} :
            Called("helm_release_exists", <<release, "monitoring">>, r, orc)

CallDeleteResource ==
    \E o \in Objects, orc \in OracleSets[1, 1] :
        /\ MayCall("delete_resource", o)
        /\ \E r \in {delete_resource(Fresh, args, orc, o[1], o[2], o[3], FALSE)} :
            Called("delete_resource", o, r, orc)

CallDeleteNamespaceWait ==
    \E n \in Namespaces, orc \in OracleSets[2, MaxFaults] :
        /\ MayCall("delete_namespace_wait", <<n>>)
        /\ \E r \in {delete_namespace_wait(Fresh, args, orc, n, NamespaceTimeout)} :
            Called("delete_namespace_wait", <<n>>, r, orc)

\* the manifest files a call of phase p may find: any of them, for the phase
\* that looks for them
ManifestsFound(p) ==
    IF p = "delete_monitoring_resources"
    THEN SUBSET {ManifestFiles[i] : i \in DOMAIN ManifestFiles}
    ELSE {{}}

CallPhase ==
    \E p \in {PhaseOrder[i] : i \in DOMAIN PhaseOrder} : \E files \in ManifestsFound(p) :
        /\ MayCall(p, <<files>>)
        /\ \E orc \in OracleSets[PhaseCommands(p), MaxFaults] :
            \E st \in {phase_method(p, Fresh, args, orc, files)} :
                Called(p, <<files>>, [st |-> st, ret |-> "None"], orc)

UInit ==
    /\ world \in Worlds
    /\ world0 = world
    /\ args \in Flags
    /\ pc = "idle"
    /\ resources = EmptyInventory
    /\ deleted_resources = <<>>
    /\ log = <<>>
    /\ out = {}
    /\ phases = <<>>
    /\ input_line = NoInput
    /\ prompted = FALSE
    /\ faults = 0
    /\ exit_status = -1
    /\ prev = "none"
    /\ vpc = "idle"
    /\ VIdle
    /\ UIdle

UNext ==
    \/ CallRunCommand
    \/ CallNamespaceExists
    \/ CallResourceExists
    \/ CallHelmReleaseExists
    \/ CallDeleteResource
    \/ CallDeleteNamespaceWait
    \/ CallPhase

\* the methods of cleanup.py, one call at a time
USpec == UInit /\ [][UNext]_vars

-----------------------------------------------------------------------------
(* Properties of the teardown workflow                                      *)

\* the commands that change the cluster or the process table
Mutating(cmd) ==
    \/ cmd[1] = "kubectl" /\ cmd[2] = "delete"
    \/ cmd[1] = "helm" /\ cmd[2] = "uninstall"
    \/ cmd[1] = "pkill"

\* some mutating command was executed in this run
MutatingExecuted == \E i \in DOMAIN log : Mutating(log[i].cmd) /\ log[i].mode = "run"

\* the run reached the summary
Completed == "== Cleanup Complete ==" \in out

\* C1: in a run with --dry-run no kubectl delete, helm uninstall or pkill is
\* executed, the cluster and the port-forward processes stay what they were
\* when the run started, and every namespace that existed then is still found
\* by an existence check
C1_DryRunNeverMutates ==
    args.dry_run =>
        /\ ~MutatingExecuted
        /\ world = world0
        /\ \A n \in world0.ns :
              System(world, <<"kubectl", "get", "namespace", n>>).rc = 0

\* a dry run over a deployed monitoring stack and running port-forwards got
\* through every phase
C1_Witness ==
    /\ args.dry_run
    /\ Completed
    /\ "kube-prometheus-stack" \in world0.rel
    /\ world0.pf # {}
    /\ world0.ns = {"argocd", "monitoring"}
    /\ \E i \in DOMAIN log : log[i].cmd[1] = "helm" /\ log[i].cmd[2] = "uninstall"


\* a dry run in which every command that failed would fail again: none of its
\* existence checks was cut short
NoFailedQuery ==
    \A i \in DOMAIN log :
        (log[i].mode = "run" /\ log[i].rc # 0) => System(world, log[i].cmd).rc # 0

\* the command was announced with the marker instead of being executed
Announced(cmd) ==
    /\ DryRunLine(cmd) \in out
    /\ \E i \in DOMAIN log : log[i].cmd = cmd /\ log[i].mode = "dry-run"
    /\ ~\E i \in DOMAIN log : log[i].cmd = cmd /\ log[i].mode = "run"

KubectlDelete(rest) == <<"kubectl", "delete">> \o rest

\* the deletions by name of the three monitoring add-ons
AddOnsByName ==
    {KubectlDelete(<<o[1], o[2], "--ignore-not-found=true", "-n", o[3]>>) :
        o \in {SMon, PRule, Dash}}

\* the deletions by manifest of the three monitoring add-ons
AddOnsByFile ==
    {KubectlDelete(<<"-f", ManifestFiles[i], "--ignore-not-found=true">>) :
        i \in DOMAIN ManifestFiles}

\* the destructive kubectl and helm commands a run plans against world w
Planned(w) ==
    {KubectlDelete(<<AllKinds, "-l", AppSelector, "-n", "default",
                     "--ignore-not-found=true">>),
     KubectlDelete(<<"servicemonitor", "quakewatch-app", "--ignore-not-found=true",
                     "-n", "default">>)}
    \cup (IF ArgoApp \in w.objs
          THEN {KubectlDelete(<<"application", "earthquake-app",
                                "--ignore-not-found=true", "-n", "argocd">>)}
          ELSE {})
    \cup (IF w.rel # {}
          THEN {<<"helm", "uninstall", "kube-prometheus-stack", "-n", "monitoring">>}
          ELSE {})
    \cup (IF "monitoring" \in w.ns
          THEN {KubectlDelete(<<"pvc", "--all", "-n", "monitoring",
                                "--ignore-not-found=true">>)}
          ELSE {})
    \cup {KubectlDelete(<<"namespace", n, "--timeout=120s">>) : n \in w.ns}

\* C2 as amended: in a run with --dry-run that got through the deletion
\* phases, every planned kubectl delete and helm uninstall (the ArgoCD
\* application, the labelled application resources, the monitoring add-ons by
\* manifest or by name, the Helm release, the PVCs, each existing namespace) is
\* printed with the [DRY-RUN] marker and not executed, and nothing else is
\* printed with the marker; the termination of the port-forward processes is
\* skipped without a marker: pkill is neither executed nor announced
C2_DryRunAnnouncesDeletions ==
    (args.dry_run /\ Completed) =>
        /\ \A i \in DOMAIN log :
              /\ Mutating(log[i].cmd) => Announced(log[i].cmd)
              /\ log[i].mode = "dry-run" =>
                    log[i].cmd \in Planned(world0) \cup AddOnsByName \cup AddOnsByFile
              /\ log[i].cmd[1] # "pkill"
        /\ NoFailedQuery =>
              /\ \A cmd \in Planned(world0) : Announced(cmd)
              /\ \/ \A cmd \in AddOnsByName : Announced(cmd)
                 \/ \A cmd \in AddOnsByFile : Announced(cmd)

\* a dry run over a full deployment with running port-forwards announced the
\* release, the PVCs and both namespaces
C2_Witness ==
    /\ args.dry_run
    /\ Completed
    /\ NoFailedQuery
    /\ world0.pf # {}
    /\ "INFO Found 2 port-forward process(es)" \in out
    /\ Cardinality(Planned(world0)) = 7
    /\ \A cmd \in Planned(world0) : Announced(cmd)

\* C2 as stated: in a run with --dry-run that got through the deletion
\* phases, the termination of the port-forward processes it found is printed
\* with the [DRY-RUN] marker too
C2_Original ==
    (args.dry_run /\ Completed /\ "INFO Found 2 port-forward process(es)" \in out) =>
        \E i \in DOMAIN log : log[i].cmd[1] = "pkill" /\ log[i].mode = "dry-run"


YesLines == {<<"y">>, <<" ", "Y", "e", "s">>}

\* C4: in a real run without --all no mutating command is issued and no
\* deletion phase is entered unless the operator answered the prompt with y or
\* yes; after any other answer, the empty one included, the run prints that
\* cleanup is cancelled, has entered no deletion phase, has left the cluster
\* unchanged and exits with status 0; with --all the operator is never
\* prompted and the run proceeds as if the answer were yes
C4_ConfirmationGate ==
    ~args.dry_run =>
        /\ (~args.all /\ (MutatingExecuted \/ phases # <<>> \/ world # world0)) =>
              (prompted /\ input_line \in YesLines)
        /\ (~args.all /\ input_line \in Answers \ YesLines) =>
              /\ pc = "done"
              /\ exit_status = 0
              /\ "INFO Cleanup cancelled" \in out
              /\ phases = <<>>
              /\ ~MutatingExecuted
              /\ world = world0
        /\ (~args.all /\ input_line \in YesLines) =>
              /\ "INFO Cleanup cancelled" \notin out
              /\ pc # "confirm_action"
        /\ args.all =>
              /\ ~prompted
              /\ input_line = NoInput
              /\ "INFO Cleanup cancelled" \notin out

\* the operator answered the prompt over a full deployment with an empty line
\* and the run was cancelled
C4_Witness ==
    /\ ~args.dry_run
    /\ ~args.all
    /\ prompted
    /\ input_line = <<>>
    /\ pc = "done"
    /\ "INFO Cleanup cancelled" \in out
    /\ ~AllEmpty(resources)
    /\ world.ns = {"argocd", "monitoring"}


\* nothing is deployed in world w (port-forward processes are no resources)
NothingDeployed(w) == w.ns = {} /\ w.objs = {} /\ w.rel = {}

\* C5: when no resources are deployed, list_resources_to_delete returns an
\* inventory whose five categories are all empty, and the run prints "Nothing
\* to clean up!" and returns (exit status 0) without prompting the operator
\* and without executing any deletion phase
C5_NothingDeployedNothingToCleanUp ==
    (NothingDeployed(world0) /\ pc \notin {"idle", "check_prerequisites"}) =>
        /\ \A c \in Categories : resources[c] = <<>>
        /\ ~prompted
        /\ phases = <<>>
        /\ ~MutatingExecuted
        /\ pc \in {"list_resources_to_delete", "done"}
        /\ (pc = "done" /\ exit_status = 0) =>
              /\ "OK Nothing to clean up!" \in out
              /\ "INFO No resources found to delete" \in out
        /\ (pc = "done" /\ exit_status # 0) =>
              \/ "ERROR Prerequisites check failed" \in out
              \/ "WARNING Cleanup interrupted by user" \in out

\* a first run over an empty cluster took its inventory with all eight
\* queries and returned
C5_Witness ==
    /\ prev = "none"
    /\ NothingDeployed(world0)
    /\ pc = "done"
    /\ exit_status = 0
    /\ "OK Nothing to clean up!" \in out
    /\ Len(log) = 11


\* the deletion phases in the order the teardown is to go through them
DependencyOrder ==
    <<"kill_port_forwards", "delete_argocd_application",
      "delete_application_resources", "delete_monitoring_resources",
      "delete_monitoring_stack", "delete_namespaces">>

IsPrefix(s, t) == Len(s) <= Len(t) /\ \A i \in DOMAIN s : s[i] = t[i]

\* the place of a mutating command in the dependency order
Rank(cmd) ==
    CASE cmd[1] = "pkill" -> 1
      [] cmd[1] = "helm" -> 6
      [] cmd[1] = "kubectl" /\ cmd[3] = "application" -> 2
      [] cmd[1] = "kubectl" /\ cmd[3] = AllKinds -> 3
      [] cmd[1] = "kubectl" /\ cmd[3] = "servicemonitor" -> 4
      [] cmd[1] = "kubectl" /\ cmd[3] \in {"prometheusrule", "configmap", "-f"} -> 5
      [] cmd[1] = "kubectl" /\ cmd[3] = "pvc" -> 6
      [] cmd[1] = "kubectl" /\ cmd[3] = "namespace" -> 7

IsNamespaceDelete(cmd) == cmd[1] = "kubectl" /\ cmd[2] = "delete" /\ cmd[3] = "namespace"

IsMutatingEntry(e) == Mutating(e.cmd)

\* the ranks of the mutating commands of the run, announced or executed, in
\* the order issued
MutatingRanks ==
    LET entries == SelectSeq(log, IsMutatingEntry)
    IN  [i \in DOMAIN entries |-> Rank(entries[i].cmd)]

\* where in the log the namespace delete commands are
NamespaceDeletes == {i \in DOMAIN log : IsNamespaceDelete(log[i].cmd)}

\* C6: the deletion phases are entered in the fixed order port-forward
\* termination, ArgoCD application, labelled application resources,
\* monitoring add-ons, monitoring release with its PVCs, namespaces; each at
\* most once and one after the other, so that the destructive commands of the
\* run are issued in that order, and a namespace delete command is issued only
\* after the five other phases have been gone through
C6_FixedPhaseOrder ==
    /\ IsPrefix(phases, DependencyOrder)
    /\ pc \in {DependencyOrder[i] : i \in DOMAIN DependencyOrder} =>
          pc = DependencyOrder[Len(phases) + 1]
    /\ pc = "summary" => phases = DependencyOrder
    /\ LET ranks == MutatingRanks
       IN  \A i \in 1..(Len(ranks) - 1) : ranks[i] <= ranks[i + 1]
    /\ LET deletes == NamespaceDeletes
       IN  deletes # {} =>
              /\ phases = DependencyOrder
              /\ \A i \in deletes : \A j \in i..Len(log) : log[j].cmd[3] = "namespace"

\* a real run over a full deployment went through the six phases and deleted
\* both namespaces last
C6_Witness ==
    /\ phases = DependencyOrder
    /\ ~args.dry_run
    /\ world0.pf # {}
    /\ world0.ns = {"argocd", "monitoring"}
    /\ world.ns = {}
    /\ \E i \in DOMAIN log : log[i].cmd[1] = "pkill"
    /\ \E i \in DOMAIN log : log[i].cmd[1] = "helm" /\ log[i].cmd[2] = "uninstall"
    /\ IsNamespaceDelete(log[Len(log)].cmd)


-----------------------------------------------------------------------------
(* Properties of the deployment verification workflow                       *)

Entered(step) == \E i \in DOMAIN steps : steps[i] = step

\* test_pods_running returned its pod list
PollReturned == vpc = "test_service_exists" \/ Entered("test_service_exists")

\* test_pods_running raised
PollFailed ==
    /\ steps # <<>>
    /\ steps[Len(steps)] = "test_pods_running"
    /\ vpc \in {"finally", "exit", "done"}

\* C7: the readiness polling loop issues at most 30 pod queries, one per
\* attempt; it ends in failure precisely when none of its queries returned a
\* non-empty pod list with every pod Running, and otherwise returns the pod
\* list of the first such query
C7_PollingBoundedAndExact ==
    /\ queries <= 30
    /\ attempt <= 30
    /\ vpc = "test_pods_running" => (queries = attempt /\ ~ready_seen)
    /\ PollReturned =>
          /\ ready_seen
          /\ pods # <<>>
          /\ \A i \in DOMAIN pods : pods[i] = "Running"
          /\ "readiness_timeout" \notin events
    /\ PollFailed => ~ready_seen
    /\ "readiness_timeout" \in events => (queries = 30 /\ PollFailed)

\* the loop gave up after thirty queries, the last of which returned no pods
C7_Witness ==
    /\ "readiness_timeout" \in events
    /\ queries = 30
    /\ result = "False"

\* C8: a port-forward process the health check started is running only while
\* the check is inside its try block or about to run its finally clause:
\* when the check is left, on whatever path, the process has been terminated
\* and waited for
C8_PortForwardReaped ==
    /\ pf_proc = "running" => vpc \in {"health_try", "health_finally"}
    /\ (Entered("test_application_health")
        /\ vpc \in {"test_hpa_exists", "finally", "exit", "done"}) =>
            pf_proc \in {"none", "reaped"}
    /\ (pf_proc = "none" /\ Entered("test_application_health")) =>
            events \cap {"pod_query_failed", "no_pod_found", "popen_failed"} # {}

\* an exception inside the try block left the check and the process was reaped
C8_Witness ==
    /\ pending = "interrupted"
    /\ pf_proc = "reaped"
    /\ "health_exception" \in events
    /\ vpc = "done"


\* the values of CLEANUP that say true in some letter case
TrueSpellings ==
    {<<"t", "r", "u", "e">>, <<"T", "R", "U", "E">>, <<"T", "r", "u", "e">>}

\* C9: on every exit path of run_all_tests the release teardown is executed
\* exactly once when CLEANUP is unset or says true in any letter case, and not
\* at all otherwise; never when --no-cleanup was given; after a readiness
\* timeout the result is a failure and the teardown has still been executed
C9_CleanupExactlyOnceIffEnabled ==
    /\ cleanups <= 1
    /\ vpc \notin {"exit", "done"} => cleanups = 0
    /\ vpc \in {"exit", "done"} =>
          /\ cleanups = 1 <=> environ \in TrueSpellings \cup {Unset}
          /\ no_cleanup => cleanups = 0
          /\ "readiness_timeout" \in events =>
                /\ result = "False"
                /\ environ \in TrueSpellings \cup {Unset} => cleanups = 1
    /\ vpc = "done" => (vexit = 0 <=> result = "True")

\* the pods never became ready, CLEANUP was "TRUE" and the teardown ran
C9_Witness ==
    /\ "readiness_timeout" \in events
    /\ environ = <<"T", "R", "U", "E">>
    /\ cleanups = 1
    /\ result = "False"
    /\ vpc = "done"

\* what the checks after pod readiness report as a warning
Warnings ==
    {"mount_missing", "config_unreadable", "route_non_200", "route_unreachable",
     "hpa_missing"}

AllSteps ==
    <<"test_helm_install", "test_deployment_status", "test_pods_running",
      "test_service_exists", "test_configmap_mount", "test_application_health",
      "test_hpa_exists">>

\* C10 as amended: after installation and pod readiness have succeeded, a
\* missing /data mount, an unreadable configuration file and a health route
\* that is unreachable or answers non-200 are warnings: the run goes on
\* through every remaining check and its result is a success unless something
\* else fails.  A missing service, a service without ports, a failed pod
\* query and an empty pod name are fatal: the run is aborted at that check,
\* the remaining checks are not executed and the result is a failure
C10_WarningsNonFatalServiceFatal ==
    vpc \in {"exit", "done"} =>
        /\ events \subseteq Warnings => (result = "True" /\ steps = AllSteps)
        /\ result = "True" => events \subseteq Warnings
        /\ "service_missing" \in events \/ "service_without_ports" \in events =>
              /\ result = "False"
              /\ steps = SubSeq(AllSteps, 1, 4)
        /\ "no_pod_found" \in events =>
              /\ result = "False"
              /\ Len(steps) \in {5, 6}
              /\ steps = SubSeq(AllSteps, 1, Len(steps))

\* the configuration file was unreadable and a route unreachable, and the run
\* went through every check and succeeded
C10_Witness ==
    /\ vpc = "done"
    /\ {"config_unreadable", "route_unreachable"} \subseteq events
    /\ result = "True"
    /\ vexit = 0
    /\ steps = AllSteps

\* C10 as stated: once pod readiness has succeeded, a run in which nothing
\* failed but the service check (service missing or without ports), the
\* configuration check (no pod found, mount or file missing) or the health
\* routes goes through every check and does not end in failure
C10_Original ==
    (vpc \in {"exit", "done"} /\ Entered("test_service_exists")
     /\ events \subseteq Warnings \cup {"service_missing", "service_without_ports",
                                        "no_pod_found"}) =>
        (result = "True" /\ steps = AllSteps)


\* what a step raises: an assertion or a command failure
Failures ==
    {"install_failed", "deployment_query_failed", "deployment_not_ready",
     "pod_query_failed", "readiness_timeout", "service_missing",
     "service_without_ports", "no_pod_found", "popen_failed", "health_exception"}

\* C11: the verification script exits with status 0 exactly when every step
\* of run_all_tests completed without raising, and with status 1 when some
\* step raised an assertion or a command failure; whether the cleanup step
\* ran, and whether its helm uninstall succeeded or failed, does not change
\* the exit status
C11_ExitStatusIsSuccess ==
    vpc = "done" =>
        /\ vexit \in {0, 1}
        /\ vexit = 0 <=> (steps = AllSteps /\ events \cap Failures = {})
        /\ vexit = 1 <=> events \cap Failures # {}
        /\ cleanup_outcome = "raised" => events \cap Failures # {}

\* every step completed, the helm uninstall of cleanup() failed, and the
\* script exited with status 0
C11_Witness ==
    /\ vpc = "done"
    /\ steps = AllSteps
    /\ events \cap Failures = {}
    /\ cleanup_outcome = "failed"
    /\ vexit = 0


-----------------------------------------------------------------------------
(* More properties of the teardown workflow                                 *)

\* how a teardown run ended, from what it printed last
Outcomes ==
    {m \in {"ERROR Prerequisites check failed", "ERROR Unexpected error",
            "WARNING Cleanup interrupted by user", "OK Nothing to clean up!",
            "INFO Cleanup cancelled", "== Cleanup Complete =="} : m \in out}

\* an executed deletion that succeeded is still in effect
InEffect(e) ==
    /\ IsNamespaceDelete(e.cmd) => e.cmd[4] \notin world.ns
    /\ (e.cmd[1] = "helm" /\ e.cmd[2] = "uninstall") => e.cmd[3] \notin world.rel
    /\ e.cmd[1] = "pkill" => world.pf = {}

\* C12: a teardown run exits with status 1 after a prerequisite failure or an
\* unhandled error and with status 0 after "Nothing to clean up!", a
\* cancellation at the prompt, a completed dry run and a completed cleanup,
\* failed or timed-out deletions included; an operator interrupt ends the run
\* with a warning and status 1, and what the run had deleted stays deleted
C12_TeardownExitStatus ==
    pc = "done" =>
        /\ Cardinality(Outcomes) = 1
        /\ exit_status = 1 <=>
              Outcomes \subseteq {"ERROR Prerequisites check failed",
                                  "ERROR Unexpected error",
                                  "WARNING Cleanup interrupted by user"}
        /\ exit_status = 0 <=>
              Outcomes \subseteq {"OK Nothing to clean up!", "INFO Cleanup cancelled",
                                  "== Cleanup Complete =="}
        /\ "WARNING Cleanup interrupted by user" \in out =>
              \A i \in DOMAIN log :
                  (log[i].mode = "run" /\ log[i].rc = 0) => InEffect(log[i])

\* a real run was interrupted after it had deleted a namespace, which stays
\* deleted
C12_Witness ==
    /\ pc = "done"
    /\ exit_status = 1
    /\ "WARNING Cleanup interrupted by user" \in out
    /\ "argocd" \in world0.ns
    /\ "argocd" \notin world.ns
    /\ "monitoring" \in world.ns


\* the three prerequisite checks, in the order issued
PrerequisiteCommands ==
    <<<<"kubectl", "version", "--client">>, <<"helm", "version">>,
      <<"kubectl", "cluster-info">>>>

PrerequisiteErrors ==
    <<"ERROR kubectl is not installed", "ERROR helm is not installed",
      "ERROR kubectl cannot connect to cluster">>

\* C13: every run issues the three prerequisite checks first, all three
\* whatever the earlier ones returned; when kubectl is missing, helm is
\* missing or the cluster is unreachable the run reports it and ends with exit
\* status 1 having issued no inventory query, no prompt and no deletion
\* command; an inventory query is issued only when all three checks passed
C13_PrerequisitesGate ==
    /\ pc \notin {"idle", "check_prerequisites", "done"} => log # <<>>
    /\ (pc = "done" /\ exit_status = 0) => log # <<>>
    /\ log # <<>> =>
        /\ Len(log) >= 3
        /\ \A i \in 1..3 :
              /\ log[i].cmd = PrerequisiteCommands[i]
              /\ log[i].rc # 0 <=> PrerequisiteErrors[i] \in out
        /\ (\E i \in 1..3 : log[i].rc # 0) =>
              /\ pc = "done"
              /\ exit_status = 1
              /\ "ERROR Prerequisites check failed" \in out
              /\ Len(log) = 3
              /\ ~prompted
              /\ phases = <<>>
              /\ world = world0
        /\ (\A i \in 1..3 : log[i].rc = 0) =>
              "ERROR Prerequisites check failed" \notin out

\* kubectl was missing; helm and the cluster were checked all the same, and
\* the run ended over a full deployment without a query
C13_Witness ==
    /\ pc = "done"
    /\ exit_status = 1
    /\ Len(log) = 3
    /\ log[1].rc # 0
    /\ log[2].rc = 0
    /\ log[3].rc = 0
    /\ world.ns = {"argocd", "monitoring"}


\* the run was not interrupted
Uninterrupted == "WARNING Cleanup interrupted by user" \notin out

\* the log entries with command cmd that were executed and failed
FailedRuns(cmd) ==
    {i \in DOMAIN log : log[i].cmd = cmd /\ log[i].mode = "run" /\ log[i].rc # 0}

\* C14: a failed or timed-out deletion is a warning: after the delete of the
\* argocd namespace failed the run still queries (and, when it finds it,
\* deletes) the monitoring namespace; a run that entered the deletion phases
\* goes through all six of them whatever its commands return, reaches the
\* "Cleanup Complete" summary and exits with status 0, unless it is
\* interrupted
C14_FailedDeletionIsNotFatal ==
    /\ (pc = "done" /\ phases # <<>> /\ Uninterrupted) =>
          /\ phases = DependencyOrder
          /\ Completed
          /\ exit_status = 0
    /\ (pc = "summary" \/ Completed) =>
          LET failed == FailedRuns(<<"kubectl", "delete", "namespace", "argocd",
                                     "--timeout=120s">>)
          IN  failed # {} =>
                /\ "WARNING Namespace 'argocd' deletion timed out" \in out
                /\ \E j \in DOMAIN log :
                      /\ \A i \in failed : i < j
                      /\ log[j].cmd = <<"kubectl", "get", "namespace", "monitoring">>
                /\ "monitoring" \in world.ns =>
                      FailedRuns(<<"kubectl", "get", "namespace", "monitoring">>)
                      \cup FailedRuns(<<"kubectl", "delete", "namespace", "monitoring",
                                        "--timeout=120s">>) # {}

\* the delete of the argocd namespace timed out, the monitoring namespace was
\* deleted after it, and the run completed with exit status 0
C14_Witness ==
    /\ pc = "done"
    /\ exit_status = 0
    /\ Completed
    /\ FailedRuns(<<"kubectl", "delete", "namespace", "argocd", "--timeout=120s">>) # {}
    /\ "argocd" \in world.ns
    /\ "monitoring" \in world0.ns
    /\ "monitoring" \notin world.ns
    /\ "OK Namespace 'monitoring' deleted" \in out


-----------------------------------------------------------------------------
(* Properties of the methods of cleanup.py, called one at a time            *)

\* the last call was of method `name`
LastCall(name) == call[1] = name

\* the command runner did not execute cmd under these flags
Suppressed(fl, cmd) ==
    fl.dry_run /\ cmd[1] \in {"kubectl", "helm"}
    /\ (HasArg(cmd, "delete") \/ HasArg(cmd, "uninstall"))

\* C15: run_command always returns a status triple.  Under dry-run a kubectl
\* or helm command with the verb delete or uninstall is not executed and
\* returns (0, "", ""); otherwise a launch failure returns a non-zero status,
\* no output and the error text, and a command that runs returns its own
\* exit status and captured output.
C15_RunnerNeverRaises ==
    LastCall("run_command") =>
        /\ DOMAIN ret = {"rc", "stdout", "stderr"}
        /\ Len(log) = 1
        /\ log[1].cmd = call[2]
        /\ log[1].rc = ret.rc
        /\ IF Suppressed(args, call[2])
           THEN /\ log[1].mode = "dry-run"
                /\ ret = [rc |-> 0, stdout |-> <<>>, stderr |-> ""]
                /\ world = world0
                /\ faults = 0
           ELSE /\ log[1].mode = "run"
                /\ faults = 1 =>
                      ret.rc # 0 /\ ret.stdout = <<>> /\ ret.stderr # ""
                      /\ world = world0
                /\ faults = 0 =>
                      /\ ret.rc = System(world0, call[2]).rc
                      /\ ret.stdout = System(world0, call[2]).stdout
                      /\ ret.stderr = System(world0, call[2]).stderr
                      /\ world = System(world0, call[2]).w

\* a command could not be launched and run_command returned its status
C15_Witness ==
    /\ LastCall("run_command")
    /\ ~Suppressed(args, call[2])
    /\ faults = 1
    /\ ret.rc = 1
    /\ ret.stderr = "command failed"

-----------------------------------------------------------------------------
(* Properties of the teardown workflow: the Deleted-Resource Log            *)

\* the identifiers the Deleted-Resource Log uses for what cluster w holds
Identified(w) ==
    {ResourceId(o[1], o[2], o[3]) : o \in w.objs}
    \cup {"namespace/" \o n : n \in w.ns}
    \cup {"helm-release/" \o r : r \in w.rel}

\* the resources this run deleted: there when it started, gone now
DeletedInRun == Identified(world0) \ Identified(world)

\* the entries of the Deleted-Resource Log
Entries == {deleted_resources[i] : i \in DOMAIN deleted_resources}

\* C16, the part that holds: within a run the Deleted-Resource Log only grows
\* by appending; it is emptied only when a new run starts
C16_AppendOnly ==
    [][pc' # "check_prerequisites" => IsPrefix(deleted_resources, deleted_resources')]_vars

\* C16 as stated: every entry of the Deleted-Resource Log identifies a
\* resource that this run deleted, and the count a completed real run reports
\* as "Deleted N resource(s)" is the number of such resources
C16_Original ==
    /\ \A i \in DOMAIN deleted_resources : deleted_resources[i] \in DeletedInRun
    /\ (Completed /\ ~args.dry_run) =>
          ("INFO Deleted " \o ToString(Cardinality(Entries \cap DeletedInRun))
               \o " resource(s)") \in out

\* a completed real run, every command of which succeeded, that deleted none of
\* the resources its log names and reports several deleted
C16_Overcount ==
    /\ Completed
    /\ ~args.dry_run
    /\ faults = 0
    /\ Entries \cap DeletedInRun = {}
    /\ Len(deleted_resources) > 1
    /\ ("INFO Deleted " \o ToString(Len(deleted_resources)) \o " resource(s)") \in out

-----------------------------------------------------------------------------
(* Properties of the methods of cleanup.py: idempotence of the phases      *)

\* the last call was of a deletion phase
LastCallPhase == \E i \in DOMAIN PhaseOrder : call[1] = PhaseOrder[i]

\* cluster w holds nothing that phase p is there to delete
TargetsAbsent(p, w) ==
    CASE p = "kill_port_forwards" -> w.pf = {}
      [] p = "delete_argocd_application" -> ArgoApp \notin w.objs
      [] p = "delete_application_resources" ->
            w.objs \cap (Labelled \cup {SMon}) = {}
      [] p = "delete_monitoring_resources" -> w.objs \cap {SMon, PRule, Dash} = {}
      [] p = "delete_monitoring_stack" ->
            /\ "kube-prometheus-stack" \notin w.rel
            /\ \A o \in w.objs : ~(o[1] = "pvc" /\ o[3] = "monitoring")
      [] p = "delete_namespaces" -> w.ns \cap Namespaces = {}

\* what a phase prints when a deletion did not succeed
FailureOutcomes ==
    {"ERROR Failed to uninstall Helm release",
     "WARNING Some application resources may not have been deleted"}
    \cup {"ERROR Failed to delete " \o o[1] \o "/" \o o[2] : o \in Objects}
    \cup {"ERROR Failed to delete namespace " \o n : n \in Namespaces}
    \cup {"WARNING Namespace '" \o n \o "' deletion timed out" : n \in Namespaces}

\* every command is launched and answered
AllSucceed == [i \in 1..MaxCommands |-> TRUE]

\* the cluster after the phase last called is called once more
Again == phase_method(call[1], Fresh, args, AllSucceed, call[2]).w

\* log entry i deletes without asking to ignore a missing target
Unflagged(i) ==
    Mutating(log[i].cmd) /\ ~HasArg(log[i].cmd, "--ignore-not-found=true")

\* the existence query that guards the unflagged command cmd
GuardOf(cmd) ==
    CASE cmd[1] = "pkill" -> <<"pgrep", "-f", "kubectl port-forward">>
      [] cmd[1] = "helm" -> <<"helm", "list", "-n", "monitoring", "-q">>
      [] cmd[1] = "kubectl" -> <<"kubectl", "get", "namespace", cmd[4]>>

\* a release is listed whose name contains that of the monitoring release,
\* which is not installed
OnlyLookalikeRelease(w) ==
    /\ "kube-prometheus-stack" \notin w.rel
    /\ \E r \in w.rel : IsSubstring(Tokens("kube-prometheus-stack"), Tokens(r))

\* C17 as stated: every deletion command of a phase asks to ignore a missing
\* target, a phase whose targets are absent leaves the cluster unchanged and
\* reports no failure, and a phase called a second time changes nothing
C17_Original ==
    (LastCallPhase /\ faults = 0) =>
        /\ \A i \in DOMAIN log : ~Unflagged(i)
        /\ TargetsAbsent(call[1], world0) =>
              world = world0 /\ out \cap FailureOutcomes = {}
        /\ Again = world

\* C17, amended: delete_resource asks to ignore a missing resource and returns
\* True for one; pkill, helm uninstall and the namespace deletion do not ask,
\* and are issued only right after their existence query succeeded.  When no
\* command fails to launch, a phase whose targets are absent leaves the cluster
\* unchanged, and reports no failure except "Failed to uninstall Helm release"
\* in a real run that finds only a release whose name contains
\* kube-prometheus-stack; and a phase called a second time changes nothing.
C17_IdempotentWhereGuarded ==
    /\ (LastCall("delete_resource") /\ faults = 0) =>
          /\ ret = TRUE
          /\ HasArg(log[1].cmd, "--ignore-not-found=true")
          /\ <<call[2], call[3], call[4]>> \notin world0.objs => world = world0
    /\ (LastCallPhase /\ faults = 0) =>
          /\ \A i \in DOMAIN log :
                Unflagged(i) =>
                    /\ log[i].cmd[1] \in {"pkill", "helm"} \/ log[i].cmd[3] = "namespace"
                    /\ i > 1
                    /\ log[i - 1].cmd = GuardOf(log[i].cmd)
                    /\ log[i - 1].rc = 0
          /\ TargetsAbsent(call[1], world0) =>
                /\ world = world0
                /\ out \cap FailureOutcomes \subseteq
                       {"ERROR Failed to uninstall Helm release"}
                /\ "ERROR Failed to uninstall Helm release" \in out <=>
                       /\ call[1] = "delete_monitoring_stack"
                       /\ ~args.dry_run
                       /\ OnlyLookalikeRelease(world0)
          /\ Again = world

\* the monitoring-release phase, run for real against a cluster that holds
\* only a look-alike release: the uninstall fails, the cluster is unchanged
C17_Witness ==
    /\ call[1] = "delete_monitoring_stack"
    /\ faults = 0
    /\ ~args.dry_run
    /\ TargetsAbsent(call[1], world0)
    /\ OnlyLookalikeRelease(world0)
    /\ "ERROR Failed to uninstall Helm release" \in out
    /\ world = world0

-----------------------------------------------------------------------------
(* Properties of the deployment verification workflow: its state machine   *)

\* the state of the verification state machine the run is in
VState ==
    CASE vpc = "idle" -> "NotInstalled"
      [] vpc = "test_helm_install" -> "Installing"
      [] vpc \in {"test_deployment_status", "test_pods_running"} ->
            "WaitingForReadiness"
      [] vpc \in {"test_service_exists", "test_configmap_mount",
                  "test_application_health", "health_try", "health_finally",
                  "test_hpa_exists"} -> "Verifying"
      [] vpc \in {"finally", "exit", "done"} ->
            IF cleanups > 0 THEN "CleanedUp"
            ELSE IF result = "True" THEN "Passed" ELSE "Failed"

\* the transitions of the state machine; a failure leaves any state before
\* Passed for Failed
VTransitions ==
    {<<"NotInstalled", "Installing">>,
     <<"Installing", "WaitingForReadiness">>, <<"Installing", "Failed">>,
     <<"WaitingForReadiness", "Verifying">>, <<"WaitingForReadiness", "Failed">>,
     <<"Verifying", "Passed">>, <<"Verifying", "Failed">>,
     <<"Passed", "CleanedUp">>, <<"Failed", "CleanedUp">>}

\* the checks of the Verifying state
VerifyingSteps ==
    {"test_service_exists", "test_configmap_mount", "test_application_health",
     "test_hpa_exists"}

\* what the run has entered so far is a prefix of run_all_tests' sequence
StepsInOrder == IsPrefix(steps, AllSteps)

\* C18, the order of steps: the readiness wait is entered only after the
\* install reported success, a Verifying check only after the readiness wait
\* returned a non-empty list of running pods, the run passes only after every
\* Verifying check was entered, and cleanup runs only once the run has passed
\* or failed
C18_EnteredInOrder ==
    /\ StepsInOrder
    /\ (Entered("test_deployment_status") \/ Entered("test_pods_running")) =>
          /\ steps[1] = "test_helm_install"
          /\ "install_failed" \notin events
          /\ ~helm_missing
    /\ (\E c \in VerifyingSteps : Entered(c)) =>
          /\ Entered("test_pods_running")
          /\ "readiness_timeout" \notin events
          /\ all_running(pods)
    /\ result = "True" => \A c \in VerifyingSteps : Entered(c)
    /\ VState = "Passed" => result = "True"
    /\ cleanups > 0 => result \in {"True", "False"} /\ vpc \in {"exit", "done"}

\* C18: the verification workflow follows NotInstalled -> Installing ->
\* WaitingForReadiness -> Verifying -> {Passed, Failed} -> CleanedUp: every
\* step of a run keeps the state or takes one of these transitions (a failure
\* leads from Installing, WaitingForReadiness or Verifying to Failed), and the
\* states are entered in order
C18_StateMachine ==
    /\ []C18_EnteredInOrder
    /\ [][VState' # VState => <<VState, VState'>> \in VTransitions]_vars

\* a run that passed every check and was cleaned up
C18_Witness ==
    /\ VState = "CleanedUp"
    /\ result = "True"
    /\ steps = AllSteps
    /\ vpc = "done"

-----------------------------------------------------------------------------
(* Properties of the teardown workflow: termination                         *)

\* the namespace deletions of this run that name namespace n
DeletesOf(n) == {i \in DOMAIN log : IsNamespaceDelete(log[i].cmd) /\ log[i].cmd[4] = n}

\* the run is in one of its end states
Ended ==
    /\ pc = "done"
    /\ exit_status \in {0, 1}
    /\ Outcomes # {}

\* C19, the namespace wait: each namespace deletion carries the 120-second
\* timeout, and a run issues at most one for each namespace, also when it
\* failed or timed out
C19_NamespaceWaitOnce ==
    \A n \in Namespaces :
        /\ Cardinality(DeletesOf(n)) <= 1
        /\ \A i \in DeletesOf(n) :
              log[i].cmd = <<"kubectl", "delete", "namespace", n, "--timeout=120s">>

\* C19: waiting is never indefinite: when every external command returns and
\* the operator answers the prompt, a teardown run that has started ends in one
\* of its end states; the namespace deletion wait is bounded by the 120-second
\* timeout and issued at most once per namespace
C19_RunTerminates ==
    /\ []C19_NamespaceWaitOnce
    /\ (pc \notin {"idle", "done"}) ~> Ended

\* a run whose deletion of namespace argocd timed out and that went on to its end
C19_Witness ==
    /\ Ended
    /\ Completed
    /\ \E i \in DeletesOf("argocd") : log[i].mode = "run" /\ log[i].rc # 0
    /\ "argocd" \in world.ns

-----------------------------------------------------------------------------
(* Properties of the teardown workflow: the existence probes                *)

\* the queries of list_resources_to_delete, in the order issued
InventoryQueries ==
    <<<<"kubectl", "get", "application", "earthquake-app", "-n", "argocd">>,
      <<"kubectl", "get", AllKinds, "-l", AppSelector, "-n", "default", "-o", "name">>,
      <<"helm", "list", "-n", "monitoring", "-q">>,
      <<"kubectl", "get", "servicemonitor", "quakewatch-app", "-n", "default">>,
      <<"kubectl", "get", "prometheusrule", "quakewatch-alerts", "-n", "monitoring">>,
      <<"kubectl", "get", "configmap", "quakewatch-dashboard", "-n", "monitoring">>,
      <<"kubectl", "get", "namespace", "argocd">>,
      <<"kubectl", "get", "namespace", "monitoring">>>>

\* the run has listed its inventory: the prerequisite checks are log entries
\* 1 to 3, the inventory queries follow
Listed == Len(log) > Len(PrerequisiteCommands)

\* the log entry of the i-th inventory query
Query(i) == log[Len(PrerequisiteCommands) + i]

\* the elements of a sequence
Range(seq) == {seq[i] : i \in DOMAIN seq}

\* the name of release occurs in the listing of the releases of cluster w
Occurs(release, w) == IsSubstring(Tokens(release), ReleaseLines(SetToSeq(w.rel)))

\* every inventory query of the run failed
AllQueriesFailed == \A i \in DOMAIN InventoryQueries : Query(i).rc # 0

\* C20: each existence probe of the inventory issues its read-only query once
\* and answers from its result alone: a namespace or a resource is listed iff
\* its query returned 0, the Helm release iff the listing returned 0 and the
\* release name occurs in it; a query that failed lists nothing even when the
\* resource exists, and when every inventory query fails the run ends with
\* "Nothing to clean up!", exit status 0, and deletes nothing
C20_ProbesAnswerFromOneQuery ==
    Listed =>
        /\ Len(log) >= Len(PrerequisiteCommands) + Len(InventoryQueries)
        /\ \A i \in DOMAIN InventoryQueries :
              /\ Query(i).cmd = InventoryQueries[i]
              /\ Query(i).mode = "run"
              /\ ~Mutating(Query(i).cmd)
        /\ resources.ArgoCD # <<>> <=> Query(1).rc = 0
        /\ Query(1).rc = 0 => ArgoApp \in world0.objs
        /\ resources.MonitoringStack # <<>> <=>
              Query(3).rc = 0 /\ Occurs("kube-prometheus-stack", world0)
        /\ \A j \in DOMAIN monitoring_resources :
              /\ ResourceId(monitoring_resources[j][1], monitoring_resources[j][2],
                            monitoring_resources[j][3])
                     \in Range(resources.MonitoringResources)
                 <=> Query(3 + j).rc = 0
              /\ Query(3 + j).rc = 0 => monitoring_resources[j] \in world0.objs
        /\ "namespace/argocd" \in Range(resources.Namespaces) <=> Query(7).rc = 0
        /\ "namespace/monitoring" \in Range(resources.Namespaces) <=> Query(8).rc = 0
        /\ \A k \in {7, 8} : Query(k).rc = 0 => Query(k).cmd[4] \in world0.ns
        /\ AllQueriesFailed =>
              /\ AllEmpty(resources)
              /\ "OK Nothing to clean up!" \in out
              /\ pc = "done"
              /\ exit_status = 0
              /\ Len(log) = Len(PrerequisiteCommands) + Len(InventoryQueries)
              /\ world = world0

\* every query of the inventory failed against a cluster that holds the whole
\* deployment: the run found nothing to clean up
C20_Witness ==
    /\ Listed
    /\ AllQueriesFailed
    /\ Namespaces \subseteq world.ns
    /\ ArgoApp \in world.objs
    /\ "kube-prometheus-stack" \in world.rel
    /\ "OK Nothing to clean up!" \in out
    /\ pc = "done"

-----------------------------------------------------------------------------
(* Properties of the methods of cleanup.py: the monitoring add-ons          *)

\* the one deletion delete_monitoring_resources owes add-on j when the
\* manifest files `files` exist
AddOnDeletion(j, files) ==
    IF ManifestFiles[j] \in files
    THEN <<"kubectl", "delete", "-f", ManifestFiles[j], "--ignore-not-found=true">>
    ELSE <<"kubectl", "delete", monitoring_resources[j][1], monitoring_resources[j][2],
           "--ignore-not-found=true", "-n", monitoring_resources[j][3]>>

\* C21: the monitoring add-on phase attempts exactly one deletion for each of
\* the ServiceMonitor, the PrometheusRule and the dashboard ConfigMap, in that
\* order: from the manifest file when the file is present, by kind, name and
\* namespace otherwise; a manifest deletion that failed is not followed by the
\* deletion by name
C21_OneDeletionPerAddOn ==
    LastCall("delete_monitoring_resources") =>
        /\ Len(log) = Len(ManifestFiles)
        /\ \A j \in DOMAIN ManifestFiles : log[j].cmd = AddOnDeletion(j, call[2])

\* the PrometheusRule manifest is present, the others are not, and its
\* deletion failed: three deletions, none of the PrometheusRule by name
C21_Witness ==
    /\ LastCall("delete_monitoring_resources")
    /\ call[2] = {ManifestFiles[2]}
    /\ ~args.dry_run
    /\ log[2].cmd[3] = "-f"
    /\ log[2].rc # 0
    /\ Len(log) = 3
    /\ log[3].cmd[3] = "configmap"

-----------------------------------------------------------------------------
(* Properties of the methods of cleanup.py: the monitoring release          *)

HelmList == <<"helm", "list", "-n", "monitoring", "-q">>
HelmUninstall == <<"helm", "uninstall", "kube-prometheus-stack", "-n", "monitoring">>
GetMonitoring == <<"kubectl", "get", "namespace", "monitoring">>
DeletePvcs ==
    <<"kubectl", "delete", "pvc", "--all", "-n", "monitoring", "--ignore-not-found=true">>

\* the places in the log of the call where command cmd was issued
Issued(cmd) == {i \in DOMAIN log : log[i].cmd = cmd}

\* the commands of the monitoring-release phase come in this order, each at
\* most once, and the listing and the namespace query always
ReleasePhaseShape ==
    /\ Issued(HelmList) = {1}
    /\ Issued(HelmUninstall) \subseteq {2}
    /\ Issued(GetMonitoring) = {Cardinality(Issued(HelmUninstall)) + 2}
    /\ Issued(DeletePvcs) \subseteq {Cardinality(Issued(HelmUninstall)) + 3}
    /\ Len(log) = 2 + Cardinality(Issued(HelmUninstall)) + Cardinality(Issued(DeletePvcs))

\* C22 as stated: helm uninstall is issued only if the release was found, and
\* the PVC deletion is issued after the uninstall attempt if and only if the
\* monitoring namespace exists at that point
C22_Original ==
    LastCall("delete_monitoring_stack") =>
        /\ ReleasePhaseShape
        /\ Issued(HelmUninstall) # {} =>
              log[1].rc = 0 /\ Occurs("kube-prometheus-stack", world0)
        /\ Issued(DeletePvcs) # {} <=> "monitoring" \in world.ns

\* C22, amended: helm uninstall is issued if and only if the listing returned
\* 0 and the release name occurs in it; after the uninstall attempt, whether
\* it succeeded, failed or was skipped, the existence of the monitoring
\* namespace is queried once, and the PVC deletion is issued if and only if
\* that query returned 0: never for a namespace that does not exist, and not
\* for one that exists when the query failed
C22_PvcsAfterUninstallAttempt ==
    LastCall("delete_monitoring_stack") =>
        /\ ReleasePhaseShape
        /\ Issued(HelmUninstall) # {} <=>
              log[1].rc = 0 /\ Occurs("kube-prometheus-stack", world0)
        /\ \A k \in Issued(GetMonitoring) :
              /\ Issued(DeletePvcs) # {} <=> log[k].rc = 0
              /\ log[k].rc = 0 => "monitoring" \in world.ns
              /\ ("monitoring" \in world.ns /\ log[k].rc # 0) => faults > 0

\* the uninstall was attempted and failed, and the PVCs were deleted all the same
C22_Witness ==
    /\ LastCall("delete_monitoring_stack")
    /\ ~args.dry_run
    /\ Len(log) = 4
    /\ log[2].cmd = HelmUninstall
    /\ log[2].rc # 0
    /\ log[4].cmd = DeletePvcs
    /\ log[4].rc = 0

-----------------------------------------------------------------------------
(* C23: every resource of the inventory gets its deletion command          *)

\* the log entries the step adds
NewEntries == {log'[i] : i \in (Len(log) + 1)..Len(log')}

\* the step executes cmd
Executes(cmd) == \E e \in NewEntries : e.cmd = cmd /\ e.mode = "run"

\* the step issues the query cmd, and it returns 0 each time the step issues it
Answers0(cmd) ==
    /\ \E e \in NewEntries : e.cmd = cmd
    /\ \A e \in NewEntries : e.cmd = cmd => e.rc = 0

\* the step is phase p of run()
PhaseStep(p) == pc = p /\ pc' = After(p)

NoQuery == <<>>

\* what list_resources_to_delete can report: whether the inventory holds it,
\* whether it exists before the step, the phase that deletes it, the existence
\* query of that phase and whether the step's query finds it, the deletion
\* commands that target it
Coverage ==
    {[reported |-> resources.ArgoCD # <<>>,
      exists |-> ArgoApp \in world.objs,
      phase |-> "delete_argocd_application",
      query |-> <<"kubectl", "get", "application", "earthquake-app", "-n", "argocd">>,
      found |-> Answers0(<<"kubectl", "get", "application", "earthquake-app",
                           "-n", "argocd">>),
      deletions |-> {KubectlDelete(<<"application", "earthquake-app",
                                     "--ignore-not-found=true", "-n", "argocd">>)}],
     [reported |-> resources.Application # <<>>,
      exists |-> world.objs \cap Labelled # {},
      phase |-> "delete_application_resources",
      query |-> NoQuery,
      found |-> TRUE,
      deletions |-> {KubectlDelete(<<AllKinds, "-l", AppSelector, "-n", "default",
                                     "--ignore-not-found=true">>)}],
     [reported |-> resources.MonitoringStack # <<>>,
      exists |-> "kube-prometheus-stack" \in world.rel,
      phase |-> "delete_monitoring_stack",
      query |-> HelmList,
      found |-> Answers0(HelmList) /\ Occurs("kube-prometheus-stack", world),
      deletions |-> {HelmUninstall}]}
    \cup
    {[reported |-> ResourceId(SMon[1], SMon[2], SMon[3])
                       \in Range(resources.MonitoringResources),
      exists |-> SMon \in world.objs,
      phase |-> p,
      query |-> NoQuery,
      found |-> TRUE,
      deletions |-> {KubectlDelete(<<SMon[1], SMon[2], "--ignore-not-found=true",
                                     "-n", SMon[3]>>)}
                    \cup IF p = "delete_monitoring_resources"
                         THEN {KubectlDelete(<<"-f", ManifestFiles[1],
                                               "--ignore-not-found=true">>)}
                         ELSE {}] :
        p \in {"delete_application_resources", "delete_monitoring_resources"}}
    \cup
    {[reported |-> ResourceId(monitoring_resources[j][1], monitoring_resources[j][2],
                              monitoring_resources[j][3])
                       \in Range(resources.MonitoringResources),
      exists |-> monitoring_resources[j] \in world.objs,
      phase |-> "delete_monitoring_resources",
      query |-> NoQuery,
      found |-> TRUE,
      deletions |-> {KubectlDelete(<<monitoring_resources[j][1],
                                     monitoring_resources[j][2],
                                     "--ignore-not-found=true",
                                     "-n", monitoring_resources[j][3]>>),
                     KubectlDelete(<<"-f", ManifestFiles[j],
                                     "--ignore-not-found=true">>)}] : j \in {2, 3}}
    \cup
    {[reported |-> ("namespace/" \o n) \in Range(resources.Namespaces),
      exists |-> n \in world.ns,
      phase |-> "delete_namespaces",
      query |-> <<"kubectl", "get", "namespace", n>>,
      found |-> Answers0(<<"kubectl", "get", "namespace", n>>),
      deletions |-> {KubectlDelete(<<"namespace", n, "--timeout=120s">>)}] :
        n \in Namespaces}

\* C23 as the spec states it: in a real run, every phase issues a deletion
\* command for each resource the inventory reported that still exists when
\* the phase runs
C23_Original ==
    [][~args.dry_run =>
          \A c \in Coverage :
              (c.reported /\ c.exists /\ PhaseStep(c.phase)) =>
                  \E d \in c.deletions : Executes(d)]_vars

\* C23 as amended: in a real run, for each resource the inventory reported,
\* the labelled application resources and the three monitoring add-ons get
\* their deletion command from their phase unconditionally; the ArgoCD
\* application, the Helm release and the two namespaces get theirs exactly
\* when the existence queries of the phase find them (one query for the
\* application and the release, two for a namespace: delete_namespaces asks,
\* and delete_namespace_wait asks again), which they do for every resource
\* that still exists unless one of these queries fails
C23_InventoryCoverage ==
    [][~args.dry_run =>
          \A c \in Coverage :
              (c.reported /\ PhaseStep(c.phase)) =>
                  /\ (\E d \in c.deletions : Executes(d)) <=> c.found
                  /\ (c.exists /\ ~c.found) =>
                        /\ faults' > faults
                        /\ \E e \in NewEntries : e.cmd = c.query /\ e.rc # 0]_vars

\* a real run got through its phases: the inventory reported both namespaces,
\* the run deleted monitoring, and argocd, whose query failed, is still there
C23_Witness ==
    /\ Completed /\ ~args.dry_run
    /\ Len(resources.Namespaces) = 2
    /\ "argocd" \in world.ns
    /\ "monitoring" \notin world.ns
    /\ \E i \in DOMAIN log :
          log[i].cmd = KubectlDelete(<<"namespace", "monitoring", "--timeout=120s">>)
          /\ log[i].rc = 0
    /\ ~\E i \in DOMAIN log : IsNamespaceDelete(log[i].cmd) /\ log[i].cmd[4] = "argocd"

-----------------------------------------------------------------------------
(* C24: port-forward processes are no part of the inventory                *)

\* the inventory of the run holds nothing
InventoryEmpty == \A c \in Categories : resources[c] = <<>>

\* the run went on after the confirmation step
Confirmed == args.dry_run \/ args.all \/ (prompted /\ input_line \in YesLines)

\* list_resources_to_delete has printed its header: the inventory was taken
InventoryTaken == "== Resources to be Deleted ==" \in out

-----------------------------------------------------------------------------
(* C25: a release whose name contains the monitoring release's name        *)

Stack == "kube-prometheus-stack"

StackListed == resources.MonitoringStack = <<"Helm release: kube-prometheus-stack">>

\* the run has executed the monitoring-release phase
StackPhaseDone == "delete_monitoring_stack" \in Range(phases)

\* the log entries of the monitoring-release phase's `helm list`: those after
\* the inventory's
PhaseHelmList == {i \in Issued(HelmList) : i > Len(PrerequisiteCommands) + 3}

\* C25 as the spec states it: while the monitoring namespace lists a release
\* whose name contains "kube-prometheus-stack", every run lists the Helm
\* release in its inventory, every run that gets to the monitoring-release
\* phase attempts the uninstall, and no run reaches "Nothing to clean up!"
C25_Original ==
    Occurs(Stack, world0) =>
        /\ InventoryTaken => StackListed
        /\ StackPhaseDone => Issued(HelmUninstall) # {}
        /\ "OK Nothing to clean up!" \notin out

\* C25 as amended: helm_release_exists answers by substring, so while the
\* monitoring namespace lists a release whose name contains
\* "kube-prometheus-stack", that release itself installed or not, a run lists
\* the Helm release in its inventory iff the inventory's `helm list` returned
\* 0, and its monitoring-release phase issues the uninstall (under --dry-run:
\* announces it) iff the phase's `helm list` returned 0; when only the other
\* release is installed the executed uninstall fails and is reported.  Such a
\* run reaches "Nothing to clean up!" only if the inventory's `helm list` and
\* its query for the monitoring namespace both failed
C25_SubstringMatchKeepsListing ==
    Occurs(Stack, world0) =>
        /\ "monitoring" \in world0.ns
        /\ InventoryTaken => (StackListed <=> Query(3).rc = 0)
        /\ StackPhaseDone =>
              /\ Cardinality(PhaseHelmList) = 1
              /\ \A i \in PhaseHelmList : Issued(HelmUninstall) # {} <=> log[i].rc = 0
              /\ \A i \in Issued(HelmUninstall) :
                    /\ log[i].mode = (IF args.dry_run THEN "dry-run" ELSE "run")
                    /\ (OnlyLookalikeRelease(world0) /\ ~args.dry_run) =>
                          /\ log[i].rc # 0
                          /\ "ERROR Failed to uninstall Helm release" \in out
                          /\ "helm-release/kube-prometheus-stack"
                                \notin Range(deleted_resources)
        /\ "OK Nothing to clean up!" \in out =>
              (Query(3).rc # 0 /\ Query(8).rc # 0)

\* only kube-prometheus-stack-crds is installed: a real run listed the Helm
\* release, got to the end, and its uninstall of kube-prometheus-stack failed
C25_Witness ==
    /\ OnlyLookalikeRelease(world0)
    /\ ~args.dry_run
    /\ Completed
    /\ StackListed
    /\ \E i \in Issued(HelmUninstall) : log[i].rc # 0 /\ log[i].mode = "run"
    /\ "ERROR Failed to uninstall Helm release" \in out
    /\ faults = 0

-----------------------------------------------------------------------------
(* C26: --verbose changes what is printed and nothing else                 *)

\* the flags without --verbose
Quiet(fl) == [fl EXCEPT !.verbose = FALSE]

\* the state of a run that has printed nothing
Blank(st) == [st EXCEPT !.out = {}]

\* two states of a run agree on the cluster, the commands issued with their
\* results, the deleted-resource log and the failures met
SameButOutput(a, b) ==
    /\ a.w = b.w
    /\ a.log = b.log
    /\ a.deleted = b.deleted
    /\ a.faults = b.faults
    /\ a.k = b.k

\* the manifests a phase may find in the working directory
FilesOf(p) ==
    IF p = "delete_monitoring_resources" THEN WorkingDirectories ELSE {{}}

\* the step the run is about to take and the same step without --verbose
\* agree on everything but the output, whatever the step's commands return
StepsAgree ==
    /\ pc = "check_prerequisites" =>
          \A orc \in [1..3 -> BOOLEAN] :
              \A a \in {check_prerequisites(run_header(St, args), args, orc)},
                 b \in {check_prerequisites(run_header(Blank(St), Quiet(args)),
                                            Quiet(args), orc)} :
                  a.ret = b.ret /\ SameButOutput(a.st, b.st)
    /\ pc = "list_resources_to_delete" =>
          \A orc \in Oracles(MaxCommands) \cup {Outage(MaxCommands)} :
              \A a \in {list_resources_to_delete(St, args, orc)},
                 b \in {list_resources_to_delete(Blank(St), Quiet(args), orc)} :
                  a.ret = b.ret /\ SameButOutput(a.st, b.st)
    /\ pc \in Range(PhaseOrder) =>
          \A orc \in Oracles(PhaseCommands(pc)), files \in FilesOf(pc) :
              \A a \in {phase_method(pc, St, args, orc, files)},
                 b \in {phase_method(pc, Blank(St), Quiet(args), orc, files)} :
                  SameButOutput(a, b)
    /\ pc = "summary" =>
          SameButOutput(summary(St, args), summary(Blank(St), Quiet(args)))

\* C26: at every step of every run, whatever it has printed so far and
\* whatever the commands of the step return, the step of the run and the same
\* step taken without --verbose from the same cluster, log and flags issue
\* the same commands with the same results, leave the same cluster and the
\* same deleted-resource log and return the same value (the prerequisite
\* verdict, the inventory), which is all that the next step of run() and the
\* exit status depend on; hence a run with --verbose and one without, given
\* the same cluster, answers, other flags and command results, agree step by
\* step on commands, final cluster, deleted-resource log and exit status
C26_VerboseAffectsOutputOnly == []StepsAgree

\* a real run with --verbose got through its phases: it echoed the commands,
\* reported the deletion of a namespace that failed, and listed what it deleted
C26_Witness ==
    /\ args.verbose /\ ~args.dry_run
    /\ Completed
    /\ exit_status = 0
    /\ ("> " \o Join(HelmUninstall, " ")) \in out
    /\ "ERROR Failed to delete namespace argocd" \in out
    /\ "Deleted resources:" \in out
    /\ \E i \in DOMAIN log : IsNamespaceDelete(log[i].cmd) /\ log[i].rc # 0

=============================================================================
